---- MODULE Spec2Model ----
(***************************************************************************)
(* Strategy-leg lifecycle of openalgo: the strategy-state endpoints        *)
(* (blueprints/strategy_state.py) over the strategy-state store, and the   *)
(* market exit engine (services/strategy_exit_service.py).                 *)
(*                                                                         *)
(* Spec      the endpoints as concurrent request handlers over the store   *)
(* SpecExit  one run of execute_market_exit, one action per remote call    *)
(* SpecCred  concurrent callers of the shared-credential functions         *)
(*           (broker/zerodha/credential_manager.py)                        *)
(***************************************************************************)
EXTENDS Integers, Sequences, FiniteSets, TLC

(***************************************************************************)
(* JSON / Python values.  A numeric field holds None, a number, or a value *)
(* float() rejects.  A string field holds "None" for Python's None.        *)
(***************************************************************************)
JNone == [t |-> "none", v |-> 0]
JBad == [t |-> "bad", v |-> 0]
JNum(x) == [t |-> "num", v |-> x]
IsNum(j) == j.t = "num"

\* Request handlers that may be in flight together (Flask serves requests
\* on concurrent threads).
Procs == {1, 2}
LegKeys == {"L1", "L2"}

\* Bounds of the model.
MaxRequests == 2

LegStatuses == {"PENDING_ENTRY", "IN_POSITION", "PENDING_EXIT", "IDLE",
                "SL_HIT", "TARGET_HIT", "MANUAL_EXIT"}
TerminalStatuses == {"SL_HIT", "TARGET_HIT", "MANUAL_EXIT"}

VARIABLES
    stateExists,     \* the store holds the strategy instance
    strategy_status, \* StrategyState.status
    legs,            \* StrategyState.legs: leg_key -> Leg (domain = present keys)
    trade_history,   \* StrategyState.trade_history
    overrides,       \* published Overrides, in order
    req,             \* per handler thread: the request it is serving
    last,            \* the request that returned most recently, as it ended
    nreq,            \* requests started so far
    exits,           \* per leg_key: ManualExitLeg requests whose exitLeg call landed
                     \* (each of them goes on to answer success)
    orders,          \* per leg_key: place_order calls made for market exits
    ex,              \* one run of execute_market_exit (SpecExit)
    environ,         \* os.environ: the value of SHARED_CREDENTIALS_FILE
    credFile,        \* what the shared credentials file holds now
    credentials_cache, \* the module global _credentials_cache
    cache_lock,      \* the module global _cache_lock: 0, or the thread holding it
    call,            \* per thread: its call of a credential function
    ncalls,          \* calls started so far
    loads            \* the credentials stored into the cache, in order

\* The credential manager (SpecCred).
credVars == <<environ, credFile, credentials_cache, cache_lock, call, ncalls, loads>>

vars == <<stateExists, strategy_status, legs, trade_history, overrides,
          req, last, nreq, exits, orders, ex, credVars>>

storeVars == <<stateExists, strategy_status, legs, trade_history, overrides>>

\* Everything but ex.
handlerVars == <<storeVars, req, last, nreq, exits, orders, credVars>>

(***************************************************************************)
(* Legs                                                                    *)
(***************************************************************************)
\* A symbol is its sequence of characters; <<>> is the empty string.
NoSymbol == <<>>
SymNifty == <<"N", "I", "F", "T", "Y", "2", "5", "C", "E">>

Leg(status, symbol, exchange, product, side, entry_price, quantity, leg_type, sl_price, target_price) ==
    [status |-> status, symbol |-> symbol, exchange |-> exchange,
     product |-> product, side |-> side, entry_price |-> entry_price,
     quantity |-> quantity, leg_type |-> leg_type,
     sl_price |-> sl_price, target_price |-> target_price]

\* Placeholder held by a handler that has read no leg.
NoLeg == Leg("None", NoSymbol, "None", "None", "None", JNone, JNone, "None",
             JNone, JNone)

\* The legs the running strategy process may have written to the store.
StrategyLegs ==
    { Leg(st, SymNifty, "NFO", "MIS", sd, JNum(100), JNum(10), lt,
          JNum(IF sd = "BUY" THEN 90 ELSE 110),
          JNum(IF sd = "BUY" THEN 110 ELSE 90)) :
        st \in LegStatuses, sd \in {"BUY", "SELL"}, lt \in {"MANUAL", "STRATEGY"} }

(***************************************************************************)
(* Request handlers.  A handler is idle or between two remote calls of the *)
(* request it serves; a request that returns is recorded in last.          *)
(***************************************************************************)
NoOverride == [override_type |-> "None", new_value |-> JNone]

IdleReq ==
    [pc |-> "idle", op |-> "None", leg_key |-> "None", market |-> FALSE,
     exit_status |-> "None", exit_price |-> JNone, leg |-> NoLeg,
     strategy_status |-> "None", placed |-> 0, ovr |-> NoOverride,
     result |-> "None"]

\* HTTP status code of each outcome a handler returns.
Code(kind) ==
    CASE kind = "ok" -> 200
      [] kind \in {"ValidationError", "InvalidState", "MarketExitFailed"} -> 400
      [] kind = "Unauthorized" -> 401
      [] kind \in {"NotFound", "LegNotFound"} -> 404
      [] kind = "DuplicateLeg" -> 409
      [] OTHER -> 500

Finish(r, kind) == [r EXCEPT !.pc = "idle", !.result = kind]

\* Handler p goes on as r: to its next remote call, or r has returned.
Respond(p, r) ==
    /\ req' = [req EXCEPT ![p] = IF r.pc = "idle" THEN IdleReq ELSE r]
    /\ last' = IF r.pc = "idle" THEN r ELSE last

(***************************************************************************)
(* ManualExitLeg: manual_exit_leg_endpoint                                 *)
(***************************************************************************)
ExitBody(exit_at_market, exit_status, exit_price) ==
    [body |-> TRUE, exit_at_market |-> exit_at_market,
     exit_status |-> exit_status, exit_price |-> exit_price]

\* Request bodies: an empty body; market exits with each exit_status (one
\* of them carrying an exit_price too); priced exits with each exit_status
\* and with each kind of exit_price.
ExitRequests ==
    { [body |-> FALSE, exit_price |-> JNone, exit_status |-> "None",
       exit_at_market |-> FALSE] }
    \cup { ExitBody(TRUE, st, JNone) :
             st \in {"None", "SL_HIT", "TARGET_HIT", "MANUAL_EXIT", "BOGUS"} }
    \cup { ExitBody(TRUE, "SL_HIT", JNum(110)) }
    \cup { ExitBody(FALSE, st, JNum(x)) :
             st \in {"SL_HIT", "TARGET_HIT"}, x \in {90, 110} }
    \cup { ExitBody(FALSE, "SL_HIT", j) : j \in {JNone, JBad, JNum(0)} }
    \cup { ExitBody(FALSE, st, JNum(90)) : st \in {"None", "MANUAL_EXIT", "BOGUS"} }

\* Mutant: a priced exit may name MANUAL_EXIT like a market exit.
ExitValidate_PricedManualExit(data) ==
    LET fail == [err |-> "ValidationError", exit_status |-> "None",
                 exit_price |-> JNone]
    IN  IF ~data.body THEN fail
        ELSE IF data.exit_at_market
        THEN IF data.exit_status = "None"
             THEN [err |-> "None", exit_status |-> "MANUAL_EXIT", exit_price |-> JNone]
             ELSE IF data.exit_status \notin {"SL_HIT", "TARGET_HIT", "MANUAL_EXIT"}
             THEN fail
             ELSE [err |-> "None", exit_status |-> data.exit_status,
                   exit_price |-> JNone]
        ELSE IF data.exit_status = "None" THEN fail
        ELSE IF data.exit_status \notin {"SL_HIT", "TARGET_HIT", "MANUAL_EXIT"} THEN fail
        ELSE IF data.exit_price = JNone THEN fail
        ELSE IF ~IsNum(data.exit_price) THEN fail
        ELSE IF data.exit_price.v <= 0 THEN fail
        ELSE [err |-> "None", exit_status |-> data.exit_status,
              exit_price |-> data.exit_price]

\* Validation of the body: the error, or the exit_status and exit_price the
\* handler goes on with.
ExitValidate(data) ==
    LET fail == [err |-> "ValidationError", exit_status |-> "None",
                 exit_price |-> JNone]
    IN  IF ~data.body THEN fail
        ELSE IF data.exit_at_market
        THEN IF data.exit_status = "None"
             THEN [err |-> "None", exit_status |-> "MANUAL_EXIT", exit_price |-> JNone]
             ELSE IF data.exit_status \notin {"SL_HIT", "TARGET_HIT", "MANUAL_EXIT"}
             THEN fail
             ELSE [err |-> "None", exit_status |-> data.exit_status,
                   exit_price |-> JNone]
        ELSE IF data.exit_status = "None" THEN fail
        ELSE IF data.exit_status \notin {"SL_HIT", "TARGET_HIT"} THEN fail
        ELSE IF data.exit_price = JNone THEN fail
        ELSE IF ~IsNum(data.exit_price) THEN fail
        ELSE IF data.exit_price.v <= 0 THEN fail
        ELSE [err |-> "None", exit_status |-> data.exit_status,
              exit_price |-> data.exit_price]

\* Python truthiness of leg.get('entry_price') and of leg.get('side').
Truthy(j) == IsNum(j) /\ j.v # 0
TruthyStr(s) == s \notin {"None", ""}

\* The cross-check of a priced exit against side and entry price.
PricedExitOk(leg, exit_status, exit_price) ==
    IF Truthy(leg.entry_price) /\ TruthyStr(leg.side)
    THEN IF exit_status = "TARGET_HIT"
         THEN ~(leg.side = "BUY" /\ exit_price.v <= leg.entry_price.v)
              /\ ~(leg.side = "SELL" /\ exit_price.v >= leg.entry_price.v)
         ELSE IF exit_status = "SL_HIT"
         THEN ~(leg.side = "BUY" /\ exit_price.v >= leg.entry_price.v)
              /\ ~(leg.side = "SELL" /\ exit_price.v <= leg.entry_price.v)
         ELSE TRUE
    ELSE TRUE

\* Mutant: a leg waiting for its exit fill is let through as well.
ExitableStatus_AlsoPendingExit(status) == status \in {"IN_POSITION", "PENDING_EXIT"}

\* The status a leg must have to be exited.
ExitableStatus(status) == status = "IN_POSITION"

\* Body validation, the read of the strategy state, the checks on the leg
\* and, for a priced exit, the cross-check: up to the next remote call.
ManualExitRead(p, k, data) ==
    LET v == ExitValidate(data)
        r0 == [IdleReq EXCEPT !.op = "exit", !.leg_key = k,
                              !.market = data.exit_at_market]
        r1 == [r0 EXCEPT !.exit_status = v.exit_status,
                         !.exit_price = v.exit_price]
    IN  IF v.err # "None" THEN Finish(r0, v.err)
        ELSE IF ~stateExists THEN Finish(r1, "NotFound")
        ELSE IF k \notin DOMAIN legs THEN Finish(r1, "LegNotFound")
        ELSE LET r2 == [r1 EXCEPT !.leg = legs[k],
                                  !.strategy_status = strategy_status]
             IN  IF ~ExitableStatus(legs[k].status) THEN Finish(r2, "InvalidState")
                 ELSE IF data.exit_at_market THEN [r2 EXCEPT !.pc = "market"]
                 ELSE IF ~PricedExitOk(legs[k], v.exit_status, v.exit_price)
                 THEN Finish(r2, "ValidationError")
                 ELSE [r2 EXCEPT !.pc = "commit"]

ManualExitLeg_Read(p) ==
    /\ req[p].pc = "idle"
    /\ nreq < MaxRequests
    /\ \E k \in LegKeys, data \in ExitRequests :
           Respond(p, ManualExitRead(p, k, data))
    /\ nreq' = nreq + 1
    /\ UNCHANGED <<storeVars, exits, orders, ex, credVars>>

(***************************************************************************)
(* Exchange / product fallback of a market exit                            *)
(***************************************************************************)
UpperChar(c) ==
    CASE c = "c" -> "C" [] c = "e" -> "E" [] c = "p" -> "P" [] c = "n" -> "N"
      [] c = "i" -> "I" [] c = "f" -> "F" [] c = "t" -> "T" [] c = "y" -> "Y"
      [] c = "s" -> "S" [] c = "x" -> "X" [] c = "b" -> "B" [] c = "a" -> "A"
      [] c = "k" -> "K" [] c = "l" -> "L" [] c = "r" -> "R" [] OTHER -> c

\* str.upper()
Upper(sym) == [i \in 1..Len(sym) |-> UpperChar(sym[i])]

\* Python's `sub in sym` on strings.
Contains(sym, sub) ==
    \E i \in 0..(Len(sym) - Len(sub)) :
        \A j \in 1..Len(sub) : sym[i + j] = sub[j]

InferExchange(leg_symbol) ==
    LET u == Upper(leg_symbol)
    IN  IF Contains(u, <<"C", "E">>) \/ Contains(u, <<"P", "E">>)
        THEN IF Contains(u, <<"S", "E", "N", "S", "E", "X">>)
                \/ Contains(u, <<"B", "A", "N", "K", "E", "X">>)
             THEN "BFO"
             ELSE IF Contains(u, <<"N", "I", "F", "T", "Y">>)
             THEN "NFO"
             ELSE "NFO"
        ELSE "NSE"

\* Mutant: the exit order repeats the side of the leg.
ExitAction_SameSide(leg_side) == IF leg_side = "BUY" THEN "BUY" ELSE "SELL"

\* `'SELL' if leg_side == 'BUY' else 'BUY'`
ExitAction(leg_side) == IF leg_side = "BUY" THEN "SELL" ELSE "BUY"

(***************************************************************************)
(* What execute_market_exit hands back to the endpoint: (success,          *)
(* fill_price), and the number of place_order calls it made.  SpecExit     *)
(* models the run itself.                                                  *)
(***************************************************************************)
FillPrices == {95, 105}

ExitResults ==
    { [success |-> TRUE, fill_price |-> JNum(f), calls |-> 1] : f \in FillPrices }
    \cup { [success |-> FALSE, fill_price |-> JNone, calls |-> c] : c \in {0, 1} }

\* Session and API-key lookup of the market path.
AuthInputs == {"ok", "nouser", "nokey"}

\* The order the market exit places for a leg.
ExitOrder(leg, config_product) ==
    LET product0 == IF TruthyStr(leg.product) THEN leg.product ELSE config_product
    IN  [symbol |-> leg.symbol,
         exchange |-> IF TruthyStr(leg.exchange) THEN leg.exchange
                      ELSE InferExchange(leg.symbol),
         product |-> IF TruthyStr(product0) THEN product0 ELSE "MIS",
         quantity |-> leg.quantity.v,
         action |-> ExitAction(leg.side)]

\* The checks on the leg snapshot that precede the order: the error, or "None".
MarketLegCheck(leg) ==
    IF leg.symbol = NoSymbol THEN "ValidationError"
    ELSE IF leg.quantity.t = "bad" THEN "ServerError"
    ELSE IF ~Truthy(leg.quantity) \/ leg.quantity.v <= 0 THEN "ValidationError"
    ELSE IF ~TruthyStr(leg.side) THEN "ValidationError"
    ELSE "None"

ConfigProducts == {"None", "NRML"}

\* Mutant: the handler goes on to the commit whatever the engine returned.
AfterMarket_CommitsAnyway(r, out) ==
    [r EXCEPT !.pc = "commit", !.placed = out.calls, !.exit_price = out.fill_price]

\* What the handler does with the triple execute_market_exit returned: on
\* success it goes on to the commit with the fill price as exit_price, on
\* failure it answers the error.
AfterMarket(r, out) ==
    IF out.success
    THEN [r EXCEPT !.pc = "commit", !.placed = out.calls,
                   !.exit_price = out.fill_price]
    ELSE Finish([r EXCEPT !.placed = out.calls], "MarketExitFailed")

\* The market path of a ManualExitLeg: session checks, leg checks, fallback
\* inference and the call of execute_market_exit.
ManualExitLeg_Market(p) ==
    /\ req[p].pc = "market"
    /\ \E auth \in AuthInputs, cp \in ConfigProducts, out \in ExitResults :
          LET r == req[p]
              k == r.leg_key
              chk == MarketLegCheck(r.leg)
          IN  IF auth # "ok"
              THEN /\ Respond(p, Finish(r, "Unauthorized"))
                   /\ orders' = orders
              ELSE IF chk # "None"
              THEN /\ Respond(p, Finish(r, chk))
                   /\ orders' = orders
              ELSE /\ orders' = IF out.calls = 1
                                THEN [orders EXCEPT ![k] = Append(@, ExitOrder(r.leg, cp))]
                                ELSE orders
                   /\ Respond(p, AfterMarket(r, out))
    /\ UNCHANGED <<storeVars, nreq, exits, ex, credVars>>

(***************************************************************************)
(* The strategy-state store (database/strategy_state_db): each call is one *)
(* atomic read-modify-write of the instance's record.                      *)
(***************************************************************************)
Pnl(leg, exit_price) ==
    IF IsNum(leg.entry_price) /\ IsNum(leg.quantity) /\ IsNum(exit_price)
    THEN IF leg.side = "BUY"
         THEN (exit_price.v - leg.entry_price.v) * leg.quantity.v
         ELSE (leg.entry_price.v - exit_price.v) * leg.quantity.v
    ELSE 0

ClosedTrade(k, leg, exit_price, exit_status) ==
    [leg_key |-> k, exit_price |-> exit_price, exit_status |-> exit_status,
     pnl |-> Pnl(leg, exit_price)]

\* exitLeg(instance_id, leg_key, exit_price, exit_status, exit_time) ->
\* result | NotFound: what the call answers in the current store state.
ExitLegAnswer(k) ==
    IF ~stateExists \/ k \notin DOMAIN legs THEN "NotFound" ELSE "ok"

\* The leg map and trade history after exitLeg: both change, or neither.
ExitLegLegs(k, exit_status) == [legs EXCEPT ![k].status = exit_status]
ExitLegHistory(k, exit_price, exit_status) ==
    Append(trade_history, ClosedTrade(k, legs[k], exit_price, exit_status))

Override(k, override_type, new_value) ==
    [leg_key |-> k, override_type |-> override_type, new_value |-> new_value]

\* Mutant: the exit of a MANUAL leg is announced as well.
PublishesOverride_AnyLeg(leg_type, status) == status = "RUNNING"

\* Whether a committed exit is announced to the strategy process.
PublishesOverride(leg_type, status) == leg_type # "MANUAL" /\ status = "RUNNING"

\* Mutant: a store error is answered after the leg's status was written.
ManualExitLeg_Commit_ErrorAfterWrite(p) ==
    /\ req[p].pc = "commit"
    /\ \E dbError \in BOOLEAN :
          LET r == req[p]
              k == r.leg_key
          IN  IF ExitLegAnswer(k) = "NotFound"
              THEN /\ Respond(p, Finish(r, "NotFound"))
                   /\ UNCHANGED <<legs, trade_history, exits>>
              ELSE IF dbError
              THEN /\ Respond(p, Finish(r, "StoreUnavailable"))
                   /\ legs' = ExitLegLegs(k, r.exit_status)
                   /\ UNCHANGED <<trade_history, exits>>
              ELSE /\ legs' = ExitLegLegs(k, r.exit_status)
                   /\ trade_history' = ExitLegHistory(k, r.exit_price, r.exit_status)
                   /\ exits' = [exits EXCEPT ![k] = @ + 1]
                   /\ IF PublishesOverride(r.leg.leg_type, r.strategy_status)
                      THEN Respond(p, [r EXCEPT !.pc = "publish"])
                      ELSE Respond(p, Finish(r, "ok"))
    /\ UNCHANGED <<stateExists, strategy_status, overrides, nreq, orders, ex, credVars>>

\* The commit of a ManualExitLeg: the call of manual_exit_strategy_leg and
\* the handling of what it raises.
ManualExitLeg_Commit(p) ==
    /\ req[p].pc = "commit"
    /\ \E dbError \in BOOLEAN :
          LET r == req[p]
              k == r.leg_key
          IN  IF dbError
              THEN /\ Respond(p, Finish(r, "StoreUnavailable"))
                   /\ UNCHANGED <<legs, trade_history, exits>>
              ELSE IF ExitLegAnswer(k) = "NotFound"
              THEN /\ Respond(p, Finish(r, "NotFound"))
                   /\ UNCHANGED <<legs, trade_history, exits>>
              ELSE /\ legs' = ExitLegLegs(k, r.exit_status)
                   /\ trade_history' = ExitLegHistory(k, r.exit_price, r.exit_status)
                   /\ exits' = [exits EXCEPT ![k] = @ + 1]
                   /\ IF PublishesOverride(r.leg.leg_type, r.strategy_status)
                      THEN Respond(p, [r EXCEPT !.pc = "publish"])
                      ELSE Respond(p, Finish(r, "ok"))
    /\ UNCHANGED <<stateExists, strategy_status, overrides, nreq, orders, ex, credVars>>

\* Mutant: a failure to publish the Override fails the request.
ManualExitLeg_Publish_FailureFatal(p) ==
    /\ req[p].pc = "publish"
    /\ \E publishFails \in BOOLEAN :
          /\ overrides' = IF publishFails THEN overrides
                          ELSE Append(overrides,
                                      Override(req[p].leg_key, "MANUAL_EXIT",
                                               req[p].exit_price))
          /\ Respond(p, Finish(req[p], IF publishFails THEN "StoreUnavailable"
                                       ELSE "ok"))
    /\ UNCHANGED <<stateExists, strategy_status, legs, trade_history, nreq,
                   exits, orders, ex, credVars>>

\* The MANUAL_EXIT Override after the commit; a failure to publish it is
\* logged and the request still answers success.
ManualExitLeg_Publish(p) ==
    /\ req[p].pc = "publish"
    /\ \E publishFails \in BOOLEAN :
          overrides' = IF publishFails THEN overrides
                       ELSE Append(overrides,
                                   Override(req[p].leg_key, "MANUAL_EXIT",
                                            req[p].exit_price))
    /\ Respond(p, Finish(req[p], "ok"))
    /\ UNCHANGED <<stateExists, strategy_status, legs, trade_history, nreq,
                   exits, orders, ex, credVars>>

(***************************************************************************)
(* AddManualLeg: create_manual_leg_endpoint.  Percentages are in           *)
(* hundredths (10 is 0.10); the prices used keep the products exact.       *)
(***************************************************************************)
RequiredFields == {"leg_key", "symbol", "exchange", "product", "quantity",
                   "side", "is_main_leg"}

\* str.upper() on the side values requests carry.
SideUpper(side) ==
    CASE side = "buy" -> "BUY" [] side = "sell" -> "SELL" [] OTHER -> side

SlValue(side, entry_price, sl_percent) ==
    IF side = "BUY" THEN (entry_price * (100 - sl_percent)) \div 100
    ELSE (entry_price * (100 + sl_percent)) \div 100

TargetValue(side, entry_price, target_percent) ==
    IF side = "BUY" THEN (entry_price * (100 + target_percent)) \div 100
    ELSE (entry_price * (100 - target_percent)) \div 100

\* Mutant: every new leg starts as an open position.
InitialStatus_AlwaysInPosition(mode) == "IN_POSITION"

\* The status a new leg starts in.
InitialStatus(mode) == IF mode = "NEW" THEN "PENDING_ENTRY" ELSE "IN_POSITION"

\* A limit that int() accepts and that is not negative, or no limit.
LimitOk(j) == j = JNone \/ (IsNum(j) /\ j.v >= 0)

\* A percentage that float() accepts and that is positive, or none.
PercentOk(j) == j = JNone \/ (IsNum(j) /\ j.v > 0)

\* The wait parameters of a NEW leg.
WaitOk(mode, wait_trade_percent, wait_baseline_price) ==
    \/ mode # "NEW"
    \/ wait_trade_percent = JNone
    \/ /\ IsNum(wait_trade_percent) /\ wait_trade_percent.v > 0
       /\ IsNum(wait_baseline_price)

\* Mutant: a level is computed from its percentage alone.
LevelComputed_WithoutEntry(entry_price, percent) == percent # JNone

\* Whether sl_value / target_value is computed from its percentage.
LevelComputed(entry_price, percent) == entry_price # JNone /\ percent # JNone

\* Validation of the body, up to the call of the store: the error, or the
\* leg handed to add_manual_strategy_leg.
AddValidate(data) ==
    LET fail == [err |-> "ValidationError", leg |-> NoLeg]
        mode == IF data.mode = "None" THEN "TRACK" ELSE data.mode
        side == SideUpper(data.side)
        ep == data.entry_price
        sl == IF LevelComputed(ep, data.sl_percent)
              THEN JNum(SlValue(side, ep.v, data.sl_percent.v)) ELSE JNone
        tg == IF LevelComputed(ep, data.target_percent)
              THEN JNum(TargetValue(side, ep.v, data.target_percent.v)) ELSE JNone
    IN  IF ~data.body THEN fail
        ELSE IF mode \notin {"TRACK", "NEW"} THEN fail
        ELSE IF data.missing \in RequiredFields THEN fail
        ELSE IF mode = "NEW" /\ ep # JNone /\ ~IsNum(ep) THEN fail
        ELSE IF mode # "NEW" /\ ~IsNum(ep) THEN fail
        ELSE IF side \notin {"BUY", "SELL"} THEN fail
        ELSE IF ~WaitOk(mode, data.wait_trade_percent, data.wait_baseline_price)
        THEN fail
        ELSE IF ~PercentOk(data.sl_percent) THEN fail
        ELSE IF ~PercentOk(data.target_percent) THEN fail
        ELSE IF ~LimitOk(data.reentry_limit) THEN fail
        ELSE IF ~LimitOk(data.reexecute_limit) THEN fail
        ELSE [err |-> "None",
              leg |-> Leg(InitialStatus(mode), data.symbol, data.exchange,
                          data.product, side, ep, data.quantity, "MANUAL",
                          sl, tg)]

\* addLeg(instance_id, Leg) -> Leg | DuplicateLeg | NotFound
AddLegAnswer(k) ==
    IF ~stateExists THEN "NotFound"
    ELSE IF k \in DOMAIN legs THEN "DuplicateLeg"
    ELSE "ok"

AddLegLegs(k, leg) == [x \in DOMAIN legs \cup {k} |-> IF x = k THEN leg ELSE legs[x]]

AddData(mode, side, entry_price, sl_percent, target_percent, quantity, symbol) ==
    [body |-> TRUE, missing |-> "None", mode |-> mode, side |-> side,
     entry_price |-> entry_price, sl_percent |-> sl_percent,
     target_percent |-> target_percent, quantity |-> quantity,
     symbol |-> symbol, exchange |-> "NFO", product |-> "NRML",
     wait_trade_percent |-> JNone, wait_baseline_price |-> JNone,
     reentry_limit |-> JNone, reexecute_limit |-> JNone]

\* The AddManualLeg bodies the handlers of Spec are sent.
AddRequests ==
    { AddData("None", "BUY", JNum(100), JNum(10), JNum(10), JNum(10), SymNifty),
      AddData("NEW", "sell", JNone, JNum(10), JNone, JNum(10), SymNifty),
      AddData("BOGUS", "BUY", JNum(100), JNone, JNone, JNum(10), SymNifty),
      AddData("TRACK", "BUY", JNum(0), JNum(10), JNone, JNum(10), SymNifty) }

\* The whole handler: validation, then the one call of the store.  The
\* request keeps the leg it built from the body (NoLeg: none was built).
AddManualLegWith(p, bodies) ==
    /\ req[p].pc = "idle"
    /\ nreq < MaxRequests
    /\ nreq' = nreq + 1
    /\ \E k \in LegKeys, data \in bodies, dbError \in BOOLEAN :
          LET v == AddValidate(data)
              r == [IdleReq EXCEPT !.op = "add", !.leg_key = k, !.leg = v.leg]
              kind == IF v.err # "None" THEN v.err
                      ELSE IF dbError THEN "StoreUnavailable"
                      ELSE AddLegAnswer(k)
          IN  /\ Respond(p, Finish(r, kind))
              /\ legs' = IF kind = "ok" THEN AddLegLegs(k, v.leg) ELSE legs
    /\ UNCHANGED <<stateExists, strategy_status, trade_history, overrides,
                   exits, orders, ex, credVars>>

\* Mutant: the store's refusal of a duplicate key is answered as success.
AddManualLeg_DuplicateSwallowed(p) ==
    /\ req[p].pc = "idle"
    /\ nreq < MaxRequests
    /\ nreq' = nreq + 1
    /\ \E k \in LegKeys, data \in AddRequests, dbError \in BOOLEAN :
          LET v == AddValidate(data)
              r == [IdleReq EXCEPT !.op = "add", !.leg_key = k, !.leg = v.leg]
              kind == IF v.err # "None" THEN v.err
                      ELSE IF dbError THEN "StoreUnavailable"
                      ELSE AddLegAnswer(k)
          IN  /\ Respond(p, Finish(r, IF kind = "DuplicateLeg" THEN "ok" ELSE kind))
              /\ legs' = IF kind = "ok" THEN AddLegLegs(k, v.leg) ELSE legs
    /\ UNCHANGED <<stateExists, strategy_status, trade_history, overrides,
                   exits, orders, ex, credVars>>

\* The handler on the bodies the handlers of Spec are sent.
AddManualLeg(p) == AddManualLegWith(p, AddRequests)

\* The AddManualLeg bodies of SpecAdd: each mode (none, and an explicit
\* null), entry prices present, absent and bad, percentages valid and not,
\* and quantities of every kind a body can carry.
AddBodies ==
    { AddData("None", "BUY", JNum(100), JNum(10), JNum(10), JNum(10), SymNifty),
      AddData("TRACK", "sell", JNum(100), JNum(10), JNum(10), JNum(10), SymNifty),
      AddData("NEW", "SELL", JNone, JNum(10), JNum(10), JNum(10), SymNifty),
      AddData("NEW", "BUY", JNum(100), JNum(10), JNone, JNum(10), SymNifty),
      AddData("NEW", "BUY", JNone, JNum(0), JNone, JNum(10), SymNifty),
      AddData("NEW", "BUY", JNone, JNone, JBad, JNum(10), SymNifty),
      AddData("NEW", "BUY", JBad, JNone, JNone, JNum(10), SymNifty),
      AddData("BOGUS", "BUY", JNum(100), JNone, JNone, JNum(10), SymNifty),
      AddData("null", "BUY", JNum(100), JNone, JNone, JNum(10), SymNifty),
      AddData("TRACK", "BUY", JNone, JNum(10), JNone, JNum(10), SymNifty),
      AddData("TRACK", "HOLD", JNum(100), JNone, JNone, JNum(10), SymNifty),
      AddData("TRACK", "BUY", JNum(100), JNone, JNone, JNum(0), SymNifty),
      AddData("TRACK", "SELL", JNum(100), JNone, JNone, JNum(0 - 5), SymNifty),
      AddData("NEW", "BUY", JNone, JNone, JNone, JBad, SymNifty),
      [AddData("TRACK", "BUY", JNum(100), JNone, JNone, JNone, SymNifty)
         EXCEPT !.missing = "quantity"],
      [AddData("TRACK", "BUY", JNum(100), JNone, JNone, JNum(10), SymNifty)
         EXCEPT !.body = FALSE] }

(***************************************************************************)
(* CreateOverride: create_strategy_override_endpoint                       *)
(***************************************************************************)
OverrideBody(k, override_type, new_value) ==
    [body |-> TRUE, leg_key |-> k, override_type |-> override_type,
     new_value |-> new_value]

OverrideRequests ==
    { [body |-> FALSE, leg_key |-> "None", override_type |-> "None",
       new_value |-> JNone] }
    \cup { OverrideBody(k, t, JNum(95)) :
             k \in LegKeys, t \in {"sl_price", "target_price"} }
    \cup { OverrideBody("L1", "sl_price", j) : j \in {JNone, JBad, JNum(-1), JNum(0)} }
    \cup { OverrideBody("L1", t, JNum(95)) : t \in {"None", "MANUAL_EXIT"} }
    \cup { OverrideBody("None", "sl_price", JNum(95)) }

\* Validation of the body: TRUE when the handler goes on to read the state.
OverrideValid(data) ==
    /\ data.body
    /\ data.leg_key # "None"
    /\ data.override_type \in {"sl_price", "target_price"}
    /\ IsNum(data.new_value)
    /\ data.new_value.v >= 0

\* Mutant: a leg still waiting for its entry may be overridden as well.
OverridableStatus_AlsoPendingEntry(status) ==
    status \in {"IN_POSITION", "PENDING_ENTRY"}

\* The status a leg must have for its SL/Target to be overridden.
OverridableStatus(status) == status = "IN_POSITION"

\* Validation, the read of the strategy state and the checks on the leg.
CreateOverride_Read(p) ==
    /\ req[p].pc = "idle"
    /\ nreq < MaxRequests
    /\ nreq' = nreq + 1
    /\ \E data \in OverrideRequests :
          LET k == data.leg_key
              r0 == [IdleReq EXCEPT !.op = "override", !.leg_key = k]
              r1 == [r0 EXCEPT !.ovr = [override_type |-> data.override_type,
                                        new_value |-> data.new_value]]
          IN  Respond(p, IF ~OverrideValid(data) THEN Finish(r0, "ValidationError")
                ELSE IF ~stateExists THEN Finish(r1, "NotFound")
                ELSE IF k \notin DOMAIN legs THEN Finish(r1, "LegNotFound")
                ELSE IF ~OverridableStatus(legs[k].status)
                THEN Finish([r1 EXCEPT !.leg = legs[k]], "InvalidState")
                ELSE [r1 EXCEPT !.leg = legs[k], !.pc = "ovr_create"])
    /\ UNCHANGED <<storeVars, exits, orders, ex, credVars>>

\* The call of create_strategy_override and the handling of what it raises.
CreateOverride_Create(p) ==
    /\ req[p].pc = "ovr_create"
    /\ \E dbError \in BOOLEAN :
          IF dbError
          THEN /\ Respond(p, Finish(req[p], "StoreUnavailable"))
               /\ overrides' = overrides
          ELSE /\ Respond(p, Finish(req[p], "ok"))
               /\ overrides' = Append(overrides,
                                      Override(req[p].leg_key,
                                               req[p].ovr.override_type,
                                               req[p].ovr.new_value))
    /\ UNCHANGED <<stateExists, strategy_status, legs, trade_history, nreq,
                   exits, orders, ex, credVars>>

(***************************************************************************)
(* DeleteStrategy: delete_strategy_state_endpoint                          *)
(***************************************************************************)
NoLegs == [x \in {} |-> NoLeg]
NoCounts == [k \in LegKeys |-> 0]

DeleteStrategy(p) ==
    /\ req[p].pc = "idle"
    /\ nreq < MaxRequests
    /\ nreq' = nreq + 1
    /\ LET r == [IdleReq EXCEPT !.op = "delete"]
       IN  IF stateExists
           THEN /\ Respond(p, Finish(r, "ok"))
                /\ stateExists' = FALSE
                /\ strategy_status' = "None"
                /\ legs' = NoLegs
                /\ trade_history' = <<>>
                /\ exits' = NoCounts
           ELSE /\ Respond(p, Finish(r, "NotFound"))
                /\ UNCHANGED <<stateExists, strategy_status, legs,
                               trade_history, exits>>
    /\ UNCHANGED <<overrides, orders, ex, credVars>>

(***************************************************************************)
(* The shared-credential functions (broker/zerodha/credential_manager.py): *)
(* threads call them concurrently; each access to a module global and each *)
(* lock operation is one step of the calling thread.                       *)
(***************************************************************************)
\* Threads that may be inside a credential function together.
Threads == {1, 2}

\* Bound of the model: calls of a credential function made in one run.
MaxCalls == 3

\* Everything but the credential manager.
lifecycleVars == <<storeVars, req, last, nreq, exits, orders, ex>>

\* Values of SHARED_CREDENTIALS_FILE: unset, empty, a path.
EnvValues == {"None", "", "/run/shared_credentials.json"}

\* What the file at that path holds: nothing at the path, text that is not
\* JSON, or an object whose keys may be absent ("None") or empty.
CredFile(api_key, access_token, openalgo_api_key) ==
    [exists |-> TRUE, json |-> TRUE, api_key |-> api_key,
     access_token |-> access_token, openalgo_api_key |-> openalgo_api_key]
NoFile == [CredFile("None", "None", "None") EXCEPT !.exists = FALSE, !.json = FALSE]
NotJson == [CredFile("None", "None", "None") EXCEPT !.json = FALSE]

CredFiles ==
    { NoFile, NotJson,
      CredFile("kA", "tA", "oA"), CredFile("kB", "tB", "None"),
      CredFile("kA", "tA", ""), CredFile("", "tA", "oA"),
      CredFile("kA", "None", "None") }

\* The exception _load_shared_credentials_from_file raises, "None" if none.
LoadError(f) ==
    IF ~f.exists THEN "FileNotFoundError"
    ELSE IF ~f.json THEN "JSONDecodeError"
    ELSE IF ~TruthyStr(f.api_key) \/ ~TruthyStr(f.access_token) THEN "ValueError"
    ELSE "None"

\* The dict _load_shared_credentials_from_file returns.
LoadedCredentials(f) ==
    [api_key |-> f.api_key, access_token |-> f.access_token]
    @@ (IF TruthyStr(f.openalgo_api_key)
        THEN [openalgo_api_key |-> f.openalgo_api_key] ELSE <<>>)

\* credentials.get(key)
DictGet(d, key) == IF key \in DOMAIN d THEN d[key] ELSE "None"

Functions ==
    {"get_shared_credentials", "get_shared_auth_token", "get_shared_openalgo_api_key"}

\* The local defaults the caller passes, as the tuple the function would
\* return them in.
Defaults(fn) ==
    CASE fn = "get_shared_credentials" -> <<"kLocal", "tLocal">>
      [] fn = "get_shared_auth_token" -> <<"kLocal:tLocal">>
      [] OTHER -> <<"None">>

\* What the function returns for the credentials _get_or_load_shared_credentials
\* gave it (JNone is Python's None).
Resolve(fn, defaults, credentials) ==
    IF credentials = JNone THEN defaults
    ELSE CASE fn = "get_shared_credentials" ->
                <<credentials.api_key, credentials.access_token>>
           [] fn = "get_shared_auth_token" ->
                <<credentials.api_key \o ":" \o credentials.access_token>>
           [] OTHER -> <<DictGet(credentials, "openalgo_api_key")>>

\* A thread's call.  hot: the cache was filled when the call began; tried:
\* the call ran the file load; creds: the local the load's result sits in.
IdleCall ==
    [pc |-> "idle", fn |-> "None", defaults |-> <<>>, hot |-> FALSE,
     tried |-> FALSE, creds |-> JNone, outcome |-> "None", error |-> "None",
     result |-> <<>>]

\* No credential function is ever called: the value of credVars outside
\* SpecCred.
NoCredentialCalls ==
    /\ environ = "None"
    /\ credFile = NoFile
    /\ credentials_cache = JNone
    /\ cache_lock = 0
    /\ call = [p \in Threads |-> IdleCall]
    /\ ncalls = 0
    /\ loads = <<>>

\* return from the public function
Returned(c, credentials) ==
    [c EXCEPT !.pc = "done", !.outcome = "returned",
              !.result = Resolve(c.fn, c.defaults, credentials)]

\* Mutant: no function re-raises; each falls through to its local defaults.
Propagates_Never(fn) == FALSE

\* Whether the function's except clause re-raises.
Propagates(fn) == fn \in {"get_shared_credentials", "get_shared_auth_token"}

\* _get_or_load_shared_credentials raised inside the function's try block.
Raised(c, error) ==
    IF Propagates(c.fn)
    THEN [c EXCEPT !.pc = "done", !.outcome = "raised", !.error = error]
    ELSE [c EXCEPT !.pc = "done", !.outcome = "returned", !.error = error,
                   !.result = Defaults(c.fn)]

\* A thread calls one of the public functions.
CredCall(p) ==
    /\ call[p].pc \in {"idle", "done"}
    /\ ncalls < MaxCalls
    /\ \E fn \in Functions :
          call' = [call EXCEPT ![p] =
                     [IdleCall EXCEPT !.pc = "getenv", !.fn = fn,
                                      !.defaults = Defaults(fn),
                                      !.hot = (credentials_cache # JNone)]]
    /\ ncalls' = ncalls + 1
    /\ UNCHANGED <<environ, credFile, credentials_cache, cache_lock, loads, lifecycleVars>>

\* os.getenv and the test of its value.
GetEnv(p) ==
    /\ call[p].pc = "getenv"
    /\ call' = [call EXCEPT ![p] =
                  IF ~TruthyStr(environ) THEN Returned(@, JNone)
                  ELSE [@ EXCEPT !.pc = "check"]]
    /\ UNCHANGED <<environ, credFile, credentials_cache, cache_lock, ncalls, loads, lifecycleVars>>

\* The first look at the cache, without the lock.
FastCheck(p) ==
    /\ call[p].pc = "check"
    /\ call' = [call EXCEPT ![p].pc =
                  IF credentials_cache # JNone THEN "fast_return" ELSE "acquire"]
    /\ UNCHANGED <<environ, credFile, credentials_cache, cache_lock, ncalls, loads, lifecycleVars>>

\* return _credentials_cache of the fast path: the global is read again.
FastReturn(p) ==
    /\ call[p].pc = "fast_return"
    /\ call' = [call EXCEPT ![p] = Returned(@, credentials_cache)]
    /\ UNCHANGED <<environ, credFile, credentials_cache, cache_lock, ncalls, loads, lifecycleVars>>

\* with _cache_lock: the thread waits until the lock is free.
Acquire(p) ==
    /\ call[p].pc = "acquire"
    /\ cache_lock = 0
    /\ cache_lock' = p
    /\ call' = [call EXCEPT ![p].pc = "recheck"]
    /\ UNCHANGED <<environ, credFile, credentials_cache, ncalls, loads, lifecycleVars>>

\* Mutant: the cache is not looked at again under the lock.
Recheck_NoSecondLook(p) ==
    /\ call[p].pc = "recheck"
    /\ call' = [call EXCEPT ![p].pc = "load"]
    /\ UNCHANGED <<environ, credFile, credentials_cache, cache_lock, ncalls, loads, lifecycleVars>>

\* The second look at the cache, under the lock; returning leaves the with
\* block and releases the lock.
Recheck(p) ==
    /\ call[p].pc = "recheck"
    /\ IF credentials_cache # JNone
       THEN /\ call' = [call EXCEPT ![p] = Returned(@, credentials_cache)]
            /\ cache_lock' = 0
       ELSE /\ call' = [call EXCEPT ![p].pc = "load"]
            /\ UNCHANGED cache_lock
    /\ UNCHANGED <<environ, credFile, credentials_cache, ncalls, loads, lifecycleVars>>

\* _load_shared_credentials_from_file on what the file holds now; an
\* exception leaves the with block, releasing the lock, before the global is
\* assigned.
Load(p) ==
    /\ call[p].pc = "load"
    /\ IF LoadError(credFile) # "None"
       THEN /\ call' = [call EXCEPT ![p] =
                          Raised([@ EXCEPT !.tried = TRUE], LoadError(credFile))]
            /\ cache_lock' = 0
       ELSE /\ call' = [call EXCEPT ![p] =
                          [@ EXCEPT !.tried = TRUE, !.pc = "store",
                                    !.creds = LoadedCredentials(credFile)]]
            /\ UNCHANGED cache_lock
    /\ UNCHANGED <<environ, credFile, credentials_cache, ncalls, loads, lifecycleVars>>

\* The assignment to _credentials_cache, and the return that follows it
\* under the lock.
Store(p) ==
    /\ call[p].pc = "store"
    /\ credentials_cache' = call[p].creds
    /\ loads' = Append(loads, call[p].creds)
    /\ call' = [call EXCEPT ![p] = Returned(@, call[p].creds)]
    /\ cache_lock' = 0
    /\ UNCHANGED <<environ, credFile, ncalls, lifecycleVars>>

\* Another process rewrites, empties or removes the shared file.
WriteFile ==
    /\ \E f \in CredFiles \ {credFile} : credFile' = f
    /\ UNCHANGED <<environ, credentials_cache, cache_lock, call, ncalls, loads, lifecycleVars>>

(***************************************************************************)
(* One run of execute_market_exit (SpecExit): one action per remote call.  *)
(* ex.exit names the return statement the run left by.                     *)
(***************************************************************************)
\* A numeric string, which float() converts.
JStr(x) == [t |-> "str", v |-> x]

\* float(j) for a value float() accepts.
Float(j) == j.v
Floatable(j) == j.t \in {"num", "str"}

\* A message: its fixed text and what the f-string puts into it.
Msg(text, tag, num) == [text |-> text, tag |-> tag, num |-> num]
NoMsg == Msg("", "", 0)

NoResult == [success |-> FALSE, fill_price |-> JNone, message |-> NoMsg]

\* Bound of the model: the largest retry ceiling tried besides the default.
MaxRetries == 3
\* The defaults of execute_market_exit.
DefaultMaxRetries == 10
RetryInterval == 2
RetryCeilings == (0..MaxRetries) \cup {DefaultMaxRetries}

\* No answer received yet from get_quotes / place_order.
NoQuote == [success |-> FALSE, status |-> "None", ltp |-> JNone]
NoPlace == [success |-> FALSE, status |-> "None", orderid |-> "None", message |-> "None"]

\* No run: the value of ex throughout Spec.  hist, ltp, quote and place keep
\* the answers the run received.
ExOff ==
    [pc |-> "off", analyzer |-> FALSE, max_retries |-> 0, leg_side |-> "None",
     action |-> "None", placeCalls |-> 0, polls |-> 0, ltpCalls |-> 0,
     quoteCalls |-> 0, ref |-> JNone, hist |-> <<>>, ltp |-> JNone,
     quote |-> NoQuote, place |-> NoPlace, result |-> NoResult,
     exit |-> "None"]

\* return success, fill_price, message
Return(e, exit, success, fill_price, message) ==
    [e EXCEPT !.pc = "done", !.exit = exit,
              !.result = [success |-> success, fill_price |-> fill_price,
                          message |-> message]]

\* Mutant: the except clause returns a price of 0 instead of None.
Unexpected_ZeroPrice(e) ==
    Return(e, "exception", FALSE, JNum(0),
           Msg("Unexpected error executing market exit", "", 0))

\* The except clause of execute_market_exit.
Unexpected(e) ==
    Return(e, "exception", FALSE, JNone,
           Msg("Unexpected error executing market exit", "", 0))

\* str.lower() on the order statuses brokers report.
Lower(status) ==
    CASE status = "COMPLETE" -> "complete"
      [] status = "REJECTED" -> "rejected"
      [] status = "CANCELLED" -> "cancelled"
      [] status = "OPEN" -> "open"
      [] OTHER -> status

\* What place_order answers: (success, response).
PlaceResponses ==
    { [success |-> TRUE, status |-> "success", orderid |-> "O1", message |-> "None"],
      [success |-> TRUE, status |-> "success", orderid |-> "None", message |-> "None"],
      [success |-> TRUE, status |-> "analyze", orderid |-> "O1", message |-> "None"],
      [success |-> TRUE, status |-> "error", orderid |-> "None", message |-> "RMS"],
      [success |-> FALSE, status |-> "error", orderid |-> "None", message |-> "RMS"],
      [success |-> FALSE, status |-> "error", orderid |-> "None", message |-> "None"],
      [success |-> FALSE, status |-> "raised", orderid |-> "None", message |-> "None"] }

\* place_order raised, or answered a failure with no response body (reading
\* the message of None raises): the run leaves by the except clause.
PlaceRaises(resp) == resp.status = "raised"

\* response.get('message', default)
PlaceFailure(resp, default) ==
    IF resp.message = "None" THEN Msg(default, "", 0)
    ELSE Msg(resp.message, "", 0)

\* What get_order_status answers: a failed fetch, or the order's data.
PollData(order_status, average_price, price, order_tag) ==
    [ok |-> TRUE, order_status |-> order_status, average_price |-> average_price,
     price |-> price, order_tag |-> order_tag]

FetchError == [ok |-> FALSE, order_status |-> "", average_price |-> JNone,
               price |-> JNone, order_tag |-> "None"]

PollResponses ==
    { FetchError, PollData("open", JNone, JNone, "None") }
    \cup { PollData("complete", a, pr, "None") :
             a \in {JNone, JNum(0), JNum(50), JBad},
             pr \in {JNone, JNum(0), JNum(48)} }
    \cup { PollData("COMPLETE", JStr(50), JNum(0), "None") }
    \cup { PollData(st, JNone, JNone, tag) :
             st \in {"rejected", "cancelled", "REJECTED"}, tag \in {"None", "RMS"} }

\* The status a poll reports, as the loop reads it.
PollStatus(resp) == IF resp.ok THEN Lower(resp.order_status) ELSE "fetch_error"
PollTerminal(resp) == PollStatus(resp) \in {"complete", "rejected", "cancelled"}

\* order_data.get(field, 0)
OrZero(j) == IF j = JNone THEN JNum(0) ELSE j

\* Mutant: the price field is never consulted.
ResolveFill_NoFallback(resp) == Float(OrZero(resp.average_price))

\* The fill price of a completed order: average_price, else price.
ResolveFill(resp) ==
    LET a == Float(OrZero(resp.average_price))
    IN  IF a <= 0 THEN Float(OrZero(resp.price)) ELSE a

\* Whether the conversions made to resolve the fill price raise.
FillRaises(resp) ==
    \/ ~Floatable(OrZero(resp.average_price))
    \/ /\ Float(OrZero(resp.average_price)) <= 0
       /\ ~Floatable(OrZero(resp.price))

TimeoutMessage(max_retries) ==
    Msg("Order execution timeout after", "seconds", max_retries * RetryInterval)

\* Mutant: a rejection is reported with the words of a timeout.
RejectMessage_AsTimeout(order_status, order_tag) == TimeoutMessage(DefaultMaxRetries)

RejectMessage(order_status, order_tag) ==
    Msg(IF order_status = "rejected" THEN "Order rejected" ELSE "Order cancelled",
        IF order_tag = "None" THEN "No reason provided" ELSE order_tag, 0)

\* Mutant: a cancelled order is polled again like a pending one.
IsRefused_OnlyRejected(st) == st = "rejected"

\* The statuses that end the run as refused by the broker.
IsRefused(st) == st \in {"rejected", "cancelled"}

\* Mutant: the loop goes round once more than the ceiling allows.
MayPoll_OneMore(polls, max_retries) == polls <= max_retries

\* The loop may go round again after this many polls.
MayPoll(polls, max_retries) == polls < max_retries

\* What one round of the poll loop does with the response it fetched; e1
\* is the run with the round counted.
PollRound(e1, resp) ==
    LET st == PollStatus(resp)
    IN  IF st = "complete"
        THEN IF FillRaises(resp) THEN Unexpected(e1)
             ELSE IF ResolveFill(resp) <= 0
             THEN Return(e1, "invalid_price", FALSE, JNone,
                         Msg("Order completed but invalid fill price", "",
                             ResolveFill(resp)))
             ELSE Return(e1, "complete", TRUE, JNum(ResolveFill(resp)),
                         Msg("Position exited at market price", "",
                             ResolveFill(resp)))
        ELSE IF IsRefused(st)
        THEN Return(e1, "rejected", FALSE, JNone, RejectMessage(st, resp.order_tag))
        ELSE IF MayPoll(e1.polls, e1.max_retries) THEN e1
        ELSE Return(e1, "timeout", FALSE, JNone, TimeoutMessage(e1.max_retries))

\* Mutant: a failed fetch does not use up a round.
PollStep_FetchNotCounted(e, resp) ==
    PollRound([e EXCEPT !.polls = IF resp.ok THEN @ + 1 ELSE @,
                        !.hist = Append(@, resp)], resp)

\* One round of the poll loop on the response resp, and the loop's exit
\* when it was the last round.
PollStep(e, resp) ==
    PollRound([e EXCEPT !.polls = @ + 1, !.hist = Append(@, resp)], resp)

\* What the endpoint answers when execute_market_exit reports a failure.
MarketExitResponse(message) ==
    [code |-> 400, status |-> "error", prefix |-> "Market exit failed: ",
     message |-> message]

\* The run starts: the exit action and the mode flag.
ExitStart ==
    /\ ex.pc = "start"
    /\ \E analyzer \in BOOLEAN :
          ex' = [ex EXCEPT !.action = ExitAction(ex.leg_side),
                           !.analyzer = analyzer,
                           !.pc = IF analyzer THEN "sb_ltp" ELSE "live_place"]
    /\ UNCHANGED handlerVars

\* Mutant: the status of the placement's answer is not looked at.
LivePlaced_IgnoresStatus(resp) == resp.success

\* Whether a live placement was accepted.
LivePlaced(resp) == resp.success /\ resp.status = "success"

\* Live mode: the order is placed.
LivePlace ==
    /\ ex.pc = "live_place"
    /\ \E resp \in PlaceResponses :
          LET e1 == [ex EXCEPT !.placeCalls = @ + 1, !.place = resp]
          IN  ex' = IF PlaceRaises(resp) THEN Unexpected(e1)
                    ELSE IF ~LivePlaced(resp)
                    THEN Return(e1, "placement", FALSE, JNone,
                                PlaceFailure(resp, "Failed to place market exit order"))
                    ELSE IF resp.orderid = "None"
                    THEN Return(e1, "no_order_id", FALSE, JNone,
                                Msg("No order ID returned from broker", "", 0))
                    ELSE IF MayPoll(0, e1.max_retries) THEN [e1 EXCEPT !.pc = "poll"]
                    ELSE Return(e1, "timeout", FALSE, JNone,
                                TimeoutMessage(e1.max_retries))
    /\ UNCHANGED handlerVars

\* Live mode: one status poll.
LivePoll ==
    /\ ex.pc = "poll"
    /\ \E resp \in PollResponses : ex' = PollStep(ex, resp)
    /\ UNCHANGED handlerVars

\* Sandbox mode: what get_ltp_value answers.
LtpValues == {JNone, JNum(0), JNum(-5), JNum(80)}

\* Mutant: any price get_ltp_value returns is used.
LtpUsable_AnyPrice(ltp) == ltp # JNone

\* A reference price the sandbox accepts from get_ltp_value.
LtpUsable(ltp) == ltp # JNone /\ ltp.v > 0

SandboxLtp ==
    /\ ex.pc = "sb_ltp"
    /\ \E ltp \in LtpValues :
          ex' = [ex EXCEPT !.ltpCalls = @ + 1, !.ref = ltp, !.ltp = ltp,
                           !.pc = IF LtpUsable(ltp) THEN "sb_place" ELSE "sb_quote"]
    /\ UNCHANGED handlerVars

\* What get_quotes answers: (success, response) with data.ltp.
QuoteResponses ==
    { [success |-> sc, status |-> st, ltp |-> JNum(75)] :
        sc \in BOOLEAN, st \in {"success", "error"} }
    \cup { [success |-> TRUE, status |-> "success", ltp |-> j] :
             j \in {JNone, JNum(0), JNum(-3), JStr(75), JStr(0), JBad} }

\* Python truthiness of the quote's ltp.
TruthyLtp(j) == j # JNone /\ ~(j.t = "num" /\ j.v = 0)

\* ltp after the quote lookup, before it is checked.
QuoteLtp(first, q) ==
    IF q.success /\ q.status = "success"
    THEN IF TruthyLtp(q.ltp) THEN JNum(Float(q.ltp)) ELSE q.ltp
    ELSE first

QuoteRaises(q) ==
    q.success /\ q.status = "success" /\ TruthyLtp(q.ltp) /\ ~Floatable(q.ltp)

\* Mutant: the order is placed whatever the quote lookup gave.
SandboxQuote_PlacesWithoutPrice ==
    /\ ex.pc = "sb_quote"
    /\ \E q \in QuoteResponses :
          LET e1 == [ex EXCEPT !.quoteCalls = @ + 1, !.quote = q]
              ltp == QuoteLtp(ex.ref, q)
          IN  ex' = IF QuoteRaises(q) THEN Unexpected(e1)
                    ELSE [e1 EXCEPT !.ref = ltp, !.pc = "sb_place"]
    /\ UNCHANGED handlerVars

\* Sandbox mode: the quote lookup made when get_ltp_value gave no usable
\* price.
SandboxQuote ==
    /\ ex.pc = "sb_quote"
    /\ \E q \in QuoteResponses :
          LET e1 == [ex EXCEPT !.quoteCalls = @ + 1, !.quote = q]
              ltp == QuoteLtp(ex.ref, q)
          IN  ex' = IF QuoteRaises(q) THEN Unexpected(e1)
                    ELSE IF ~TruthyLtp(ltp) \/ ltp.v <= 0
                    THEN Return(e1, "no_ltp", FALSE, JNone,
                                Msg("Unable to fetch LTP for", "", 0))
                    ELSE [e1 EXCEPT !.ref = ltp, !.pc = "sb_place"]
    /\ UNCHANGED handlerVars

\* Mutant: the explicit "analyze" answer is not taken as accepted.
SandboxPlaced_OnlySuccess(resp) == resp.success /\ resp.status = "success"

\* Whether a sandbox placement was accepted.
SandboxPlaced(resp) == resp.success /\ resp.status \in {"success", "analyze"}

SandboxPlace ==
    /\ ex.pc = "sb_place"
    /\ \E resp \in PlaceResponses :
          LET e1 == [ex EXCEPT !.placeCalls = @ + 1, !.place = resp]
          IN  ex' = IF PlaceRaises(resp) THEN Unexpected(e1)
                    ELSE IF ~SandboxPlaced(resp)
                    THEN Return(e1, "placement", FALSE, JNone,
                                PlaceFailure(resp, "Failed to place sandbox exit order"))
                    ELSE Return(e1, "sandbox", TRUE, e1.ref,
                                Msg("Position exited at market price", "(Analyzer mode)",
                                    e1.ref.v))
    /\ UNCHANGED handlerVars

\* The store of SpecExit: one strategy with no legs; no handler runs.
InitExit ==
    /\ stateExists = TRUE
    /\ strategy_status = "RUNNING"
    /\ legs = NoLegs
    /\ trade_history = <<>>
    /\ overrides = <<>>
    /\ req = [p \in Procs |-> IdleReq]
    /\ last = IdleReq
    /\ nreq = 0
    /\ exits = NoCounts
    /\ orders = [k \in LegKeys |-> <<>>]
    /\ \E n \in RetryCeilings, sd \in {"BUY", "SELL"} :
          ex = [ExOff EXCEPT !.pc = "start", !.max_retries = n, !.leg_side = sd]
    /\ NoCredentialCalls

NextExit ==
    \/ ExitStart
    \/ LivePlace
    \/ LivePoll
    \/ SandboxLtp
    \/ SandboxQuote
    \/ SandboxPlace

SpecExit == InitExit /\ [][NextExit]_vars

(***************************************************************************)
(* Spec: the endpoints over the store                                      *)
(***************************************************************************)
\* The trade the strategy process recorded for a leg it closed itself.
StrategyTrade(k, leg) == ClosedTrade(k, leg, JNum(120), leg.status)

Init ==
    /\ stateExists \in BOOLEAN
    /\ IF stateExists
       THEN /\ strategy_status \in {"RUNNING", "COMPLETED"}
            /\ \E leg \in StrategyLegs :
                  /\ legs = [x \in {"L1"} |-> leg]
                  /\ trade_history =
                        IF leg.status \in TerminalStatuses
                        THEN <<StrategyTrade("L1", leg)>> ELSE <<>>
       ELSE /\ strategy_status = "None"
            /\ legs = NoLegs
            /\ trade_history = <<>>
    /\ overrides = <<>>
    /\ req = [p \in Procs |-> IdleReq]
    /\ last = IdleReq
    /\ nreq = 0
    /\ exits = NoCounts
    /\ orders = [k \in LegKeys |-> <<>>]
    /\ ex = ExOff
    /\ NoCredentialCalls

Next ==
    \E p \in Procs :
        \/ ManualExitLeg_Read(p)
        \/ ManualExitLeg_Market(p)
        \/ ManualExitLeg_Commit(p)
        \/ ManualExitLeg_Publish(p)
        \/ AddManualLeg(p)
        \/ CreateOverride_Read(p)
        \/ CreateOverride_Create(p)
        \/ DeleteStrategy(p)

Spec == Init /\ [][Next]_vars

\* The same handlers when the server takes one request at a time.
NextSerial ==
    \E p \in Procs :
        /\ \A q \in Procs \ {p} : req[q].pc = "idle"
        /\ \/ ManualExitLeg_Read(p)
           \/ ManualExitLeg_Market(p)
           \/ ManualExitLeg_Commit(p)
           \/ ManualExitLeg_Publish(p)
           \/ AddManualLeg(p)
           \/ CreateOverride_Read(p)
           \/ CreateOverride_Create(p)
           \/ DeleteStrategy(p)

SpecSerial == Init /\ [][NextSerial]_vars

\* SpecAdd: AddManualLeg requests on a strategy that is absent, has no leg,
\* or has the one leg L1.
InitAdd ==
    /\ stateExists \in BOOLEAN
    /\ strategy_status = IF stateExists THEN "RUNNING" ELSE "None"
    /\ legs \in IF stateExists
                THEN {NoLegs,
                      [x \in {"L1"} |->
                          Leg("IN_POSITION", SymNifty, "NFO", "MIS", "BUY", JNum(100),
                              JNum(10), "STRATEGY", JNum(90), JNum(110))]}
                ELSE {NoLegs}
    /\ trade_history = <<>>
    /\ overrides = <<>>
    /\ req = [p \in Procs |-> IdleReq]
    /\ last = IdleReq
    /\ nreq = 0
    /\ exits = NoCounts
    /\ orders = [k \in LegKeys |-> <<>>]
    /\ ex = ExOff
    /\ NoCredentialCalls

NextAdd == \E p \in Procs : AddManualLegWith(p, AddBodies)

SpecAdd == InitAdd /\ [][NextAdd]_vars

\* SpecInfer: exits of one leg whose record may lack exchange and product.
\* The symbols: index options of both families (one in lower case), an
\* option of no known family, and equities, two of them with CE or PE
\* inside their name.
InferSymbols ==
    { <<"S", "E", "N", "S", "E", "X", "2", "5", "C", "E">>,
      <<"B", "A", "N", "K", "E", "X", "2", "5", "P", "E">>,
      SymNifty,
      <<"n", "i", "f", "t", "y", "2", "5", "p", "e">>,
      <<"C", "R", "U", "D", "E", "2", "5", "C", "E">>,
      <<"I", "N", "F", "Y">>,
      <<"C", "E", "S", "C">>,
      <<"P", "E", "L">> }

InitInfer ==
    /\ stateExists = TRUE
    /\ strategy_status = "RUNNING"
    /\ \E sym \in InferSymbols, exch \in {"None", "", "NFO"},
          prod \in {"None", "NRML"} :
          legs = [x \in {"L1"} |->
                    Leg("IN_POSITION", sym, exch, prod, "BUY", JNum(100), JNum(10),
                        "STRATEGY", JNum(90), JNum(110))]
    /\ trade_history = <<>>
    /\ overrides = <<>>
    /\ req = [p \in Procs |-> IdleReq]
    /\ last = IdleReq
    /\ nreq = 0
    /\ exits = NoCounts
    /\ orders = [k \in LegKeys |-> <<>>]
    /\ ex = ExOff
    /\ NoCredentialCalls

NextInfer ==
    \/ ManualExitLeg_Read(1)
    \/ ManualExitLeg_Market(1)
    \/ ManualExitLeg_Commit(1)
    \/ ManualExitLeg_Publish(1)

SpecInfer == InitInfer /\ [][NextInfer]_vars

(***************************************************************************)
(* The summary of a strategy state: compute_strategy_state_summary, and    *)
(* the GET endpoint that attaches it (SpecSummary).                        *)
(***************************************************************************)
\* Python floats are binary floating-point numbers: a sum is rounded to the
\* nearest number the significand can hold, a tie going to the even one.
\* The model keeps SigBits bits of significand (the program's floats keep
\* 53), so every integer below 2^SigBits in size is held exactly, and sums
\* beyond it are rounded by the same rule.
SigBits == 10

\* x rounded to a float.
FRound(x) ==
    LET m == IF x < 0 THEN 0 - x ELSE x
        s == CHOOSE k \in 0..SigBits :
                 /\ m \div 2^k < 2^SigBits
                 /\ (k = 0 \/ m \div 2^(k - 1) >= 2^SigBits)
        q == m \div 2^s
        r == m % 2^s
        up == 2 * r > 2^s \/ (2 * r = 2^s /\ q % 2 = 1)
        v == (IF up THEN q + 1 ELSE q) * 2^s
    IN  IF x < 0 THEN 0 - v ELSE v

\* a + b on floats.
FAdd(a, b) == FRound(a + b)

\* Mutant: a leg closed at its target still counts as open.
OPEN_LEG_STATUSES_WithTargetHit ==
    {"IN_POSITION", "PENDING_ENTRY", "PENDING_EXIT", "TARGET_HIT"}

OPEN_LEG_STATUSES == {"IN_POSITION", "PENDING_ENTRY", "PENDING_EXIT"}

\* float(d.get(field, 0) or 0) for a field holding a number or None.
FieldOrZero(d, field) ==
    IF field \notin DOMAIN d THEN 0
    ELSE IF d[field] = JNone THEN 0
    ELSE d[field].v

\* The loop over legs.items(): (unrealized sum, open count, idle count).
RECURSIVE LegTotals(_, _)
LegTotals(ls, keys) ==
    IF keys = {} THEN [unrealized |-> 0, open |-> 0, idle |-> 0]
    ELSE LET k == CHOOSE x \in keys : TRUE
             rest == LegTotals(ls, keys \ {k})
         IN  IF ls[k].status \in OPEN_LEG_STATUSES
             THEN [rest EXCEPT !.unrealized = FAdd(@, FieldOrZero(ls[k], "unrealized_pnl")),
                               !.open = @ + 1]
             ELSE IF ls[k].status = "IDLE"
             THEN [rest EXCEPT !.idle = @ + 1]
             ELSE rest

\* sum(float(t.get('pnl', 0) or 0) for t in trade_history): the trades are
\* added one by one, from the first, to a total that starts at 0.
RECURSIVE SumFrom(_, _)
SumFrom(total, h) ==
    IF h = <<>> THEN total
    ELSE SumFrom(FAdd(total, IF "pnl" \in DOMAIN Head(h) THEN Head(h).pnl ELSE 0),
                 Tail(h))

RealizedPnl(h) == SumFrom(0, h)

compute_strategy_state_summary(ls, h) ==
    LET t == LegTotals(ls, DOMAIN ls)
    IN  [total_realized_pnl |-> RealizedPnl(h),
         total_unrealized_pnl |-> t.unrealized,
         total_pnl |-> FAdd(RealizedPnl(h), t.unrealized),
         trade_history_pnl |-> RealizedPnl(h),
         open_positions_count |-> t.open,
         idle_positions_count |-> t.idle,
         total_trades |-> Len(h)]

NoSummary == compute_strategy_state_summary(NoLegs, <<>>)

\* GET of one strategy state: the state with its summary, or NotFound.
GetStrategyState ==
    /\ last' = [summary |-> IF stateExists
                            THEN compute_strategy_state_summary(legs, trade_history)
                            ELSE NoSummary]
                @@ Finish([IdleReq EXCEPT !.op = "get"],
                          IF stateExists THEN "ok" ELSE "NotFound")
    /\ UNCHANGED <<storeVars, req, nreq, exits, orders, ex, credVars>>

\* Legs as the strategy process keeps them, with the unrealized_pnl it
\* last wrote (None: not computed yet), and one leg without the field.
SummaryLegs ==
    { [unrealized_pnl |-> u]
        @@ Leg(st, SymNifty, "NFO", "MIS", "BUY", JNum(100), JNum(10), "STRATEGY",
               JNum(90), JNum(110)) :
        st \in {"IN_POSITION", "IDLE", "TARGET_HIT"}, u \in {JNone, JNum(7)} }
    \cup { Leg("IN_POSITION", SymNifty, "NFO", "MIS", "SELL", JNum(100), JNum(10),
               "MANUAL", JNum(110), JNum(90)) }

\* Trade histories the strategy process left: none, one trade, and one
\* entry that carries no pnl.
SummaryHistories ==
    { <<>>,
      <<[leg_key |-> "L0", exit_price |-> JNum(120), exit_status |-> "TARGET_HIT",
         pnl |-> 200]>>,
      <<[leg_key |-> "L0", exit_price |-> JNum(120), exit_status |-> "TARGET_HIT"]>> }

InitSummary ==
    /\ stateExists = TRUE
    /\ strategy_status = "RUNNING"
    /\ \E l1 \in SummaryLegs :
          \E l2 \in { l \in SummaryLegs : l.status = "IN_POSITION" /\ l.side = l1.side } :
              legs = [x \in LegKeys |-> IF x = "L1" THEN l1 ELSE l2]
    /\ trade_history \in SummaryHistories
    /\ overrides = <<>>
    /\ req = [p \in Procs |-> IdleReq]
    /\ last = IdleReq
    /\ nreq = 0
    /\ exits = NoCounts
    /\ orders = [k \in LegKeys |-> <<>>]
    /\ ex = ExOff
    /\ NoCredentialCalls

\* GETs at any time, around the exits one handler thread serves.
NextSummary ==
    \/ GetStrategyState
    \/ ManualExitLeg_Read(1)
    \/ ManualExitLeg_Market(1)
    \/ ManualExitLeg_Commit(1)
    \/ ManualExitLeg_Publish(1)

SpecSummary == InitSummary /\ [][NextSummary]_vars

\* The pnl values of the trades the store hands back: small amounts, and one
\* at the size where the significand is full.
PnlValues == {1, 200, 2^SigBits}

PnlTrade(v) ==
    [leg_key |-> "L0", exit_price |-> JNum(120), exit_status |-> "TARGET_HIT",
     pnl |-> v]

\* Trade histories of up to three trades.
PnlHistories ==
    { <<>> }
    \cup { <<PnlTrade(a)>> : a \in PnlValues }
    \cup { <<PnlTrade(a), PnlTrade(b)>> : a, b \in PnlValues }
    \cup { <<PnlTrade(a), PnlTrade(b), PnlTrade(c)>> : a, b, c \in PnlValues }

\* SpecPnl: the summary computed by GETs over one stored state.
InitPnl ==
    /\ stateExists = TRUE
    /\ strategy_status \in {"RUNNING", "COMPLETED"}
    /\ \E l1 \in SummaryLegs : legs = [x \in {"L1"} |-> l1]
    /\ trade_history \in PnlHistories
    /\ overrides = <<>>
    /\ req = [p \in Procs |-> IdleReq]
    /\ last = IdleReq
    /\ nreq = 0
    /\ exits = NoCounts
    /\ orders = [k \in LegKeys |-> <<>>]
    /\ ex = ExOff
    /\ NoCredentialCalls

NextPnl == GetStrategyState

SpecPnl == InitPnl /\ [][NextPnl]_vars

(***************************************************************************)
(* Claims checked under Spec                                               *)
(***************************************************************************)
CountTrades(k) ==
    Cardinality({ i \in 1..Len(trade_history) : trade_history[i].leg_key = k })

IsPrefix(a, b) == Len(a) <= Len(b) /\ \A i \in 1..Len(a) : a[i] = b[i]

InFlightExits == { p \in Procs : req[p].op = "exit" /\ req[p].pc # "idle" }

\* C1: of the ManualExitLeg requests for one leg_key, interleaved or not, at
\* most one gets its exit committed and answers success.
C1_AtMostOneExitSucceeds == \A k \in LegKeys : exits[k] <= 1

\* C2: a leg whose status is SL_HIT, TARGET_HIT or MANUAL_EXIT keeps that
\* status in every step in which the leg stays in the strategy.
C2_TerminalStatusIsFinal ==
    [][\A k \in DOMAIN legs :
          (legs[k].status \in TerminalStatuses /\ k \in DOMAIN legs')
              => legs'[k].status = legs[k].status]_vars

\* C3: a ManualExitLeg with a valid body that finds its leg in a status
\* other than IN_POSITION answers InvalidState, in priced and in market
\* mode, has placed no order, and never goes on to the market or commit
\* step.
C3_ExitOutsideInPositionIsInvalidState ==
    /\ (last.op = "exit" /\ last.leg # NoLeg /\ last.leg.status # "IN_POSITION")
          => (last.result = "InvalidState" /\ last.placed = 0)
    /\ \A p \in InFlightExits : req[p].leg.status = "IN_POSITION"
    /\ \A k \in LegKeys :
          Len(orders[k]) > 0 =>
              \/ ~stateExists
              \/ k \in DOMAIN legs
                    /\ legs[k].status \in TerminalStatuses \cup {"IN_POSITION"}

\* C3 witness: a market exit of a leg in PENDING_EXIT was refused.
C3_Witness ==
    /\ last.op = "exit" /\ last.market
    /\ last.leg.status = "PENDING_EXIT"
    /\ last.result = "InvalidState"

\* C4: while the strategy exists, trade_history holds exactly one ClosedTrade
\* for each closed leg and none for any other leg, and every step keeps the
\* entries trade_history already has.
C4_OneClosedTradePerExit ==
    [][stateExists' =>
          /\ \A k \in LegKeys :
                CountTrades(k)' =
                    IF k \in DOMAIN legs' /\ legs'[k].status \in TerminalStatuses
                    THEN 1 ELSE 0
          /\ IsPrefix(trade_history, trade_history')]_vars

(***************************************************************************)
(* SpecCred: the credential functions called from concurrent threads       *)
(***************************************************************************)
\* The process has just imported the module: the cache is empty and the
\* lock free; the environment variable keeps its value for the run.
InitCred ==
    /\ stateExists = TRUE
    /\ strategy_status = "RUNNING"
    /\ legs = NoLegs
    /\ trade_history = <<>>
    /\ overrides = <<>>
    /\ req = [p \in Procs |-> IdleReq]
    /\ last = IdleReq
    /\ nreq = 0
    /\ exits = NoCounts
    /\ orders = [k \in LegKeys |-> <<>>]
    /\ ex = ExOff
    /\ environ \in EnvValues
    /\ credFile \in CredFiles
    /\ credentials_cache = JNone
    /\ cache_lock = 0
    /\ call = [p \in Threads |-> IdleCall]
    /\ ncalls = 0
    /\ loads = <<>>

NextCred ==
    \/ \E p \in Threads :
          \/ CredCall(p)
          \/ GetEnv(p)
          \/ FastCheck(p)
          \/ FastReturn(p)
          \/ Acquire(p)
          \/ Recheck(p)
          \/ Load(p)
          \/ Store(p)
    \/ WriteFile

SpecCred == InitCred /\ [][NextCred]_vars

(***************************************************************************)
(* Claims checked under SpecExit                                           *)
(***************************************************************************)
\* A live run whose order was accepted: it is polling, or has ended.
Live ==
    /\ ex.pc \in {"poll", "done"} /\ ~ex.analyzer
    /\ LivePlaced(ex.place) /\ ex.place.orderid # "None"
Polled == Len(ex.hist)
NonTerminalUpTo(n) == \A i \in 1..n : ~PollTerminal(ex.hist[i])
Numeric(j) == j.t \in {"none", "num", "str"}
Failed == ex.pc = "done" /\ ~ex.result.success /\ ex.result.fill_price = JNone

\* C5: live mode with ceiling N = max_retries.  If the polls before the
\* last one were all non-terminal and the last one reports complete with
\* average_price p > 0, the run has ended in success with fill_price p and
\* that poll was its last; if N polls were all non-terminal, the run has
\* ended in Timeout, having polled exactly N times.
C5_CompleteAfterPendingOrTimeout ==
    Live =>
      /\ \A n \in 1..Polled :
            ( /\ NonTerminalUpTo(n - 1)
              /\ PollStatus(ex.hist[n]) = "complete"
              /\ Floatable(ex.hist[n].average_price)
              /\ Float(ex.hist[n].average_price) > 0 )
            => /\ ex.pc = "done" /\ ex.exit = "complete" /\ Polled = n /\ n <= ex.max_retries
               /\ ex.result.success
               /\ ex.result.fill_price = JNum(Float(ex.hist[n].average_price))
      /\ (Polled >= ex.max_retries /\ NonTerminalUpTo(Polled))
            => /\ ex.pc = "done" /\ ex.exit = "timeout" /\ Polled = ex.max_retries
               /\ Failed
               /\ ex.result.message = TimeoutMessage(ex.max_retries)

\* C5 witness: ceiling 10, nine polls "open", the tenth complete at 50.
C5_Witness ==
    /\ ex.pc = "done" /\ ex.max_retries = 10 /\ Polled = 10
    /\ \A i \in 1..9 : PollStatus(ex.hist[i]) = "open"
    /\ PollStatus(ex.hist[10]) = "complete"
    /\ ex.result.success /\ ex.result.fill_price = JNum(50)

AllFetchErrors == \A i \in 1..Polled : ex.hist[i] = FetchError

\* C6: a live run makes at most max_retries status polls; when it has
\* ended it has returned exactly one of success, hard failure and Timeout;
\* while it has not ended it has polls left; a failed fetch uses up a poll
\* like a pending answer, so max_retries failed fetches end in Timeout.
C6_BoundedPollsOneOutcome ==
    /\ Polled <= ex.max_retries
    /\ ex.polls = Polled
    /\ ex.pc = "poll" => Polled < ex.max_retries
    /\ (ex.pc = "done" /\ ~ex.analyzer) =>
          /\ ex.exit \in {"complete", "placement", "no_order_id", "invalid_price",
                          "rejected", "exception", "timeout"}
          /\ ex.result.success <=> ex.exit = "complete"
          /\ ex.exit = "timeout" <=>
                (Live /\ Polled = ex.max_retries /\ NonTerminalUpTo(Polled))
    /\ (Live /\ AllFetchErrors /\ Polled = ex.max_retries)
          => (ex.pc = "done" /\ ex.exit = "timeout" /\ Failed)

\* C6 witness: three failed fetches with ceiling 3 ended in Timeout.
C6_Witness ==
    /\ ex.pc = "done" /\ ex.max_retries = 3 /\ Polled = 3 /\ AllFetchErrors
    /\ ex.exit = "timeout"

RefusedAt(n) == PollStatus(ex.hist[n]) \in {"rejected", "cancelled"}

\* C7: in a live run a poll that reports rejected or cancelled is the last
\* poll: the run has ended in failure with no fill price, and its message
\* names the status and carries the broker's reason.
C7_RefusalEndsPolling ==
    Live =>
      \A n \in 1..Polled :
        RefusedAt(n) =>
          /\ Polled = n /\ Failed /\ ex.exit = "rejected"
          /\ ex.result.message.text =
                (IF PollStatus(ex.hist[n]) = "rejected" THEN "Order rejected"
                 ELSE "Order cancelled")
          /\ ex.hist[n].order_tag # "None"
                => ex.result.message.tag = ex.hist[n].order_tag

\* C7 witness: the first poll reported cancelled with reason RMS.
C7_Witness ==
    /\ Live /\ Polled = 1 /\ ex.max_retries > 1
    /\ PollStatus(ex.hist[1]) = "cancelled" /\ ex.hist[1].order_tag = "RMS"
    /\ Failed /\ ex.result.message.tag = "RMS"

\* The number a price field holds; a missing field counts as 0.
NumOf(j) == IF j.t = "none" THEN 0 ELSE j.v

\* C8: a poll that reports complete (with prices that are numbers) is the
\* last poll; the fill price is average_price if positive, else price; the
\* run succeeds with it if it is positive and otherwise fails with no fill
\* price.
C8_FillPriceOfCompletedOrder ==
    Live =>
      \A n \in 1..Polled :
        LET r == ex.hist[n]
            a == NumOf(r.average_price)
            resolved == IF a > 0 THEN a ELSE NumOf(r.price)
        IN  ( /\ PollStatus(r) = "complete"
              /\ Numeric(r.average_price)
              /\ a > 0 \/ Numeric(r.price) )
            => /\ ex.pc = "done" /\ Polled = n
               /\ IF resolved > 0
                  THEN ex.result.success /\ ex.result.fill_price = JNum(resolved)
                  ELSE Failed /\ ex.exit = "invalid_price"

\* C8 witness: complete with average_price 0 and price 48 filled at 48.
C8_Witness ==
    /\ Live /\ Polled >= 1
    /\ PollStatus(ex.hist[Polled]) = "complete"
    /\ ex.hist[Polled].average_price = JNum(0) /\ ex.hist[Polled].price = JNum(48)
    /\ ex.result.success /\ ex.result.fill_price = JNum(48)

OrderTags == {"None", "RMS", "seconds"}

\* Every answer the endpoint can give for a refused order, and for a timeout.
RefusalResponses ==
    { MarketExitResponse(RejectMessage(st, tag)) :
        st \in {"rejected", "cancelled"}, tag \in OrderTags }
TimeoutResponses ==
    { MarketExitResponse(TimeoutMessage(n)) : n \in RetryCeilings }

\* C9: what is surfaced for a run that exhausted its polls is never what is
\* surfaced for any refused (rejected or cancelled) order, and conversely:
\* the two answers, both HTTP 400, differ in their message.
C9_TimeoutDistinctFromRefusal ==
    (ex.pc = "done" /\ ~ex.analyzer) =>
      /\ ex.exit = "timeout" =>
            /\ MarketExitResponse(ex.result.message) \in TimeoutResponses
            /\ MarketExitResponse(ex.result.message) \notin RefusalResponses
      /\ ex.exit = "rejected" =>
            /\ MarketExitResponse(ex.result.message) \in RefusalResponses
            /\ MarketExitResponse(ex.result.message) \notin TimeoutResponses

\* C9 witness: a run with the default ceiling timed out.
C9_Witness ==
    /\ ex.pc = "done" /\ ex.exit = "timeout" /\ ex.max_retries = DefaultMaxRetries
    /\ ex.result.message.text = "Order execution timeout after"

LtpPositive == ex.ltp.t = "num" /\ ex.ltp.v > 0
QuoteAnswered == ex.quoteCalls = 1
QuoteGood == ex.quote.success /\ ex.quote.status = "success"

\* C10: sandbox mode.  The reference price is the last-traded price when
\* that is present and positive (the quote is then not asked), otherwise
\* the quote's ltp; with no last-traded price and a quote ltp p > 0 an
\* accepted placement ends the run in success with fill_price p; when the
\* quote fails too, or its ltp is missing or not positive, the run fails.
C10_SandboxReferencePrice ==
    (ex.analyzer /\ ex.pc \in {"sb_place", "done"}) =>
      /\ LtpPositive => (ex.ref = ex.ltp /\ ex.quoteCalls = 0)
      /\ (~LtpPositive /\ QuoteAnswered /\ QuoteGood /\ Numeric(ex.quote.ltp)
            /\ NumOf(ex.quote.ltp) > 0)
          => /\ ex.ref = JNum(NumOf(ex.quote.ltp))
             /\ (ex.pc = "done" /\ SandboxPlaced(ex.place))
                   => /\ ex.result.success
                      /\ ex.result.fill_price = JNum(NumOf(ex.quote.ltp))
      /\ (~LtpPositive /\ QuoteAnswered
            /\ (~QuoteGood \/ (Numeric(ex.quote.ltp) /\ NumOf(ex.quote.ltp) <= 0)))
          => (Failed /\ ex.exit = "no_ltp")
      /\ (ex.pc = "done" /\ ex.result.success)
          => (ex.result.fill_price = ex.ref /\ ex.ref.v > 0)

\* C10 witness: no last-traded price, quote ltp 75, filled at 75.
C10_Witness ==
    /\ ex.analyzer /\ ex.pc = "done" /\ ex.ltp = JNone
    /\ ex.quote.ltp = JNum(75)
    /\ ex.result.success /\ ex.result.fill_price = JNum(75)

\* C11: a sandbox run that placed its order succeeds exactly when the
\* placement answered with status success or analyze, its fill price is the
\* reference price resolved before the placement, and it never polls the
\* order status; a live run never asks for a last-traded price or a quote.
C11_SandboxFillsWithoutPolling ==
    /\ ex.analyzer => (ex.polls = 0 /\ Polled = 0)
    /\ (ex.analyzer /\ ex.pc = "done" /\ ex.placeCalls = 1) =>
          /\ ex.result.success <=> ex.place.status \in {"success", "analyze"}
          /\ ex.result.success => (ex.result.fill_price = ex.ref /\ ex.ref.v > 0)
    /\ (ex.analyzer /\ ex.pc = "done" /\ ex.placeCalls = 0) => Failed
    /\ (~ex.analyzer /\ ex.pc \notin {"off", "start"})
          => (ex.ltpCalls = 0 /\ ex.quoteCalls = 0)

\* C11 witness: a sandbox placement answered "analyze" and the run filled
\* at the last-traded price 80 without a poll.
C11_Witness ==
    /\ ex.analyzer /\ ex.pc = "done" /\ ex.place.status = "analyze"
    /\ ex.result.success /\ ex.result.fill_price = JNum(80) /\ ex.polls = 0

\* C12: whenever a run has placed its order, in live or in sandbox mode,
\* the order's action is SELL for a BUY leg and BUY for a SELL leg.
C12_ExitOrderOppositeSide ==
    ex.placeCalls > 0 =>
      /\ ex.leg_side \in {"BUY", "SELL"}
      /\ ex.leg_side = "BUY" => ex.action = "SELL"
      /\ ex.leg_side = "SELL" => ex.action = "BUY"

\* C12 witness: a sandbox run for a SELL leg placed a BUY order.
C12_Witness ==
    /\ ex.analyzer /\ ex.placeCalls = 1
    /\ ex.leg_side = "SELL" /\ ex.action = "BUY"

(***************************************************************************)
(* Claims about the Override of a manual exit (Spec)                       *)
(***************************************************************************)
\* Handler p takes this step.
Steps(p) == req'[p] # req[p]
\* This step is the commit of p's exit, and the store took it.
Commits(p) ==
    /\ req[p].pc = "commit" /\ Steps(p)
    /\ exits'[req[p].leg_key] = exits[req[p].leg_key] + 1
ManualExitOverride(r) ==
    [leg_key |-> r.leg_key, override_type |-> "MANUAL_EXIT",
     new_value |-> r.exit_price]
HasTrade(k, exit_price) ==
    \E i \in 1..Len(trade_history) :
        trade_history[i].leg_key = k /\ trade_history[i].exit_price = exit_price

C14_PublishFailureKeepsExit ==
    [][\A p \in Procs :
          (req[p].pc = "publish" /\ Steps(p) /\ overrides' = overrides) =>
              /\ last'.op = "exit" /\ last'.leg_key = req[p].leg_key
              /\ last'.result = "ok"
              /\ legs' = legs /\ trade_history' = trade_history
              /\ stateExists' = stateExists
              /\ stateExists' =>
                    /\ req[p].leg_key \in DOMAIN legs'
                    /\ legs'[req[p].leg_key].status \in TerminalStatuses
                    /\ \E i \in 1..Len(trade_history') :
                          /\ trade_history'[i].leg_key = req[p].leg_key
                          /\ trade_history'[i].exit_price = req[p].exit_price]_vars

\* C14 witness: the exit of a STRATEGY leg of a RUNNING strategy answered
\* success, no Override was ever published, and the leg is closed with its
\* ClosedTrade.
C14_Witness ==
    /\ last.op = "exit" /\ last.result = "ok"
    /\ last.leg.leg_type = "STRATEGY" /\ last.strategy_status = "RUNNING"
    /\ overrides = <<>>
    /\ stateExists /\ legs[last.leg_key].status = last.exit_status
    /\ HasTrade(last.leg_key, last.exit_price)

(***************************************************************************)
(* Claims about AddManualLeg (Spec)                                        *)
(***************************************************************************)
\* This step is a whole AddManualLeg request: it started and it answered.
AddStep == nreq' = nreq + 1 /\ req' = req /\ last'.op = "add"
\* The request's leg_key was already one of the strategy's legs.
AddOfPresentKey == AddStep /\ stateExists /\ last'.leg_key \in DOMAIN legs

\* C15 as stated: an AddManualLeg whose leg_key is already present answers
\* DuplicateLeg whatever its other fields are (the store answering), and
\* leaves the legs unchanged.
C15_DuplicateKeyAlwaysDuplicateLeg ==
    [][(AddOfPresentKey /\ last'.result # "StoreUnavailable") =>
          (last'.result = "DuplicateLeg" /\ legs' = legs)]_vars

\* C15 amended: an AddManualLeg whose leg_key is already present never
\* succeeds and leaves the legs unchanged; it answers ValidationError when
\* its body fails validation (no leg was built), and otherwise DuplicateLeg,
\* or a store error when the store call itself fails.
C15_DuplicateKeyNeverAdds ==
    [][AddOfPresentKey =>
          /\ legs' = legs
          /\ last'.leg = NoLeg => last'.result = "ValidationError"
          /\ last'.leg # NoLeg =>
                last'.result \in {"DuplicateLeg", "StoreUnavailable"}]_vars

\* C15 witness: a valid AddManualLeg for a present key answered
\* DuplicateLeg and the leg under that key is not the one it offered.
C15_Witness ==
    /\ last.op = "add" /\ last.result = "DuplicateLeg" /\ last.leg # NoLeg
    /\ stateExists /\ last.leg_key \in DOMAIN legs
    /\ legs[last.leg_key] # last.leg

(***************************************************************************)
(* Claims about the order of AddManualLeg and ManualExitLeg (Spec)         *)
(***************************************************************************)
\* This step is a ManualExitLeg request that answered at once, with a body
\* that passed validation.
ExitAnsweredAtOnce ==
    /\ nreq' = nreq + 1 /\ req' = req /\ last'.op = "exit"
    /\ last'.result # "ValidationError"
\* This step starts p's ManualExitLeg and leaves it in flight.
ExitGoesOn(p) == req[p].pc = "idle" /\ Steps(p) /\ req'[p].op = "exit"

\* C16: an exit is committed only for a leg that is in the strategy and is
\* IN_POSITION at that moment; a ManualExitLeg on an absent strategy answers
\* NotFound and on an absent leg LegNotFound, and it goes past its checks
\* only for a leg that is present and IN_POSITION; no step moves a leg out
\* of PENDING_ENTRY, so a leg added in NEW mode is never exited.
C16_ExitOnlyWhileInPosition ==
    [][/\ \A p \in Procs :
            /\ Commits(p) =>
                  /\ stateExists /\ req[p].leg_key \in DOMAIN legs
                  /\ legs[req[p].leg_key].status = "IN_POSITION"
            /\ ExitGoesOn(p) =>
                  /\ stateExists /\ req'[p].leg_key \in DOMAIN legs
                  /\ legs[req'[p].leg_key].status = "IN_POSITION"
       /\ ExitAnsweredAtOnce =>
            /\ ~stateExists => last'.result = "NotFound"
            /\ (stateExists /\ last'.leg_key \notin DOMAIN legs)
                  => last'.result = "LegNotFound"
       /\ \A k \in DOMAIN legs :
            (legs[k].status = "PENDING_ENTRY" /\ k \in DOMAIN legs')
                => legs'[k].status = "PENDING_ENTRY"]_vars

(***************************************************************************)
(* Claims about the priced exit (Spec)                                     *)
(***************************************************************************)
\* The exit price is on the wrong side of the entry price for the status.
WrongSide(leg, exit_status, exit_price) ==
    /\ IsNum(leg.entry_price) /\ IsNum(exit_price)
    /\ \/ leg.side = "BUY" /\ exit_status = "TARGET_HIT"
             /\ exit_price.v <= leg.entry_price.v
       \/ leg.side = "BUY" /\ exit_status = "SL_HIT"
             /\ exit_price.v >= leg.entry_price.v
       \/ leg.side = "SELL" /\ exit_status = "TARGET_HIT"
             /\ exit_price.v >= leg.entry_price.v
       \/ leg.side = "SELL" /\ exit_status = "SL_HIT"
             /\ exit_price.v <= leg.entry_price.v

\* C17: a priced exit of an IN_POSITION leg goes on to its commit only if
\* its exit price is on the right side of the entry price (BUY: above for
\* TARGET_HIT, below for SL_HIT; SELL mirrored); one whose price is on the
\* wrong side answers ValidationError and leaves legs and trade_history
\* unchanged.
C17_PricedExitCrossCheck ==
    [][/\ \A p \in Procs :
            (ExitGoesOn(p) /\ ~req'[p].market) =>
                ~WrongSide(req'[p].leg, req'[p].exit_status, req'[p].exit_price)
       /\ ( /\ ExitAnsweredAtOnce /\ ~last'.market
            /\ last'.leg.status = "IN_POSITION"
            /\ WrongSide(last'.leg, last'.exit_status, last'.exit_price) )
          => /\ last'.result = "ValidationError"
             /\ legs' = legs /\ trade_history' = trade_history]_vars

\* The exit_status a body is accepted with, by mode.
AcceptedStatus(data) ==
    LET v == ExitValidate(data)
    IN  v.err = "None" =>
          IF data.exit_at_market
          THEN IF data.exit_status = "None" THEN v.exit_status = "MANUAL_EXIT"
               ELSE /\ v.exit_status = data.exit_status
                    /\ v.exit_status \in {"SL_HIT", "TARGET_HIT", "MANUAL_EXIT"}
          ELSE /\ v.exit_status = data.exit_status
               /\ v.exit_status \in {"SL_HIT", "TARGET_HIT"}
\* The statuses an exit of that mode may commit.
MayCommit(r) ==
    IF r.market THEN r.exit_status \in {"SL_HIT", "TARGET_HIT", "MANUAL_EXIT"}
    ELSE r.exit_status \in {"SL_HIT", "TARGET_HIT"}

\* Every body the validation accepts is accepted with a status of its mode.
EveryBodyAccepted == \A data \in ExitRequests : AcceptedStatus(data)

OrderedLevels(leg) ==
    IsNum(leg.entry_price) =>
      /\ IsNum(leg.sl_price) =>
            IF leg.side = "BUY" THEN leg.sl_price.v < leg.entry_price.v
            ELSE leg.sl_price.v > leg.entry_price.v
      /\ IsNum(leg.target_price) =>
            IF leg.side = "BUY" THEN leg.target_price.v > leg.entry_price.v
            ELSE leg.target_price.v < leg.entry_price.v

\* C19: the leg an AddManualLeg puts into the strategy, when it has an
\* entry_price, has sl_price < entry_price < target_price if its side is BUY
\* and target_price < entry_price < sl_price if it is SELL, for whichever of
\* the two levels it has.
C19_LevelsOrderedBySide ==
    [][(AddStep /\ last'.result = "ok") =>
          /\ last'.leg_key \in DOMAIN legs'
          /\ legs'[last'.leg_key] = last'.leg
          /\ last'.leg.side \in {"BUY", "SELL"}
          /\ OrderedLevels(last'.leg)]_vars

(***************************************************************************)
(* Claims checked under SpecSummary                                        *)
(***************************************************************************)
\* What leg k adds to the unrealized total.
OpenUnrealized(ls, k) ==
    IF k \in DOMAIN ls
       /\ ls[k].status \in {"IN_POSITION", "PENDING_ENTRY", "PENDING_EXIT"}
       /\ "unrealized_pnl" \in DOMAIN ls[k] /\ ls[k].unrealized_pnl # JNone
    THEN ls[k].unrealized_pnl.v ELSE 0
\* The pnl of the i-th trade, 0 when it carries none.
PnlAt(h, i) == IF "pnl" \in DOMAIN h[i] THEN h[i].pnl ELSE 0
\* The summary of the state as it is, and as the step leaves it.
SummaryNow == compute_strategy_state_summary(legs, trade_history)
SummaryNext == compute_strategy_state_summary(legs', trade_history')

Permuted(h, f) == [i \in 1..Len(h) |-> h[f[i]]]

\* C21: the summary a GET attaches is the summary of the stored state, its
\* total_realized_pnl is what the summary gives for every permutation of
\* trade_history, and the GET leaves legs and trade_history as they were.
C21_SummaryIsPure ==
    [][(last'.op = "get" /\ last'.result = "ok") =>
          /\ last'.summary = compute_strategy_state_summary(legs, trade_history)
          /\ \A f \in Permutations(1..Len(trade_history)) :
                last'.summary.total_realized_pnl
                    = compute_strategy_state_summary(
                          legs, Permuted(trade_history, f)).total_realized_pnl
          /\ legs' = legs /\ trade_history' = trade_history]_vars

(***************************************************************************)
(* Claims about CreateOverride (Spec)                                      *)
(***************************************************************************)
\* This step is a CreateOverride request that answered at once.
OverrideAnsweredAtOnce ==
    nreq' = nreq + 1 /\ req' = req /\ last'.op = "override"
\* This step starts p's CreateOverride and leaves it in flight.
OverrideGoesOn(p) == req[p].pc = "idle" /\ Steps(p) /\ req'[p].op = "override"
\* The Override p's request asks for.
RequestedOverride(r) == Override(r.leg_key, r.ovr.override_type, r.ovr.new_value)

\* C22: a CreateOverride with a valid body goes on to the store only when
\* it finds its leg present and IN_POSITION; the store call then publishes
\* exactly the one Override asked for (nothing if the call itself fails)
\* and leaves legs and trade_history, so the leg's status, sl_price and
\* target_price, unchanged; when the strategy or the leg is missing
\* (NotFound, LegNotFound) or the leg is in another status (InvalidState)
\* the request fails at once and publishes nothing.
C22_OverrideLeavesLegAlone ==
    [][/\ \A p \in Procs :
            /\ OverrideGoesOn(p) =>
                  /\ stateExists /\ req'[p].leg_key \in DOMAIN legs
                  /\ legs[req'[p].leg_key].status = "IN_POSITION"
                  /\ req'[p].leg = legs[req'[p].leg_key]
                  /\ overrides' = overrides
                  /\ legs' = legs /\ trade_history' = trade_history
            /\ (req[p].pc = "ovr_create" /\ Steps(p)) =>
                  /\ legs' = legs /\ trade_history' = trade_history
                  /\ last'.op = "override" /\ last'.leg_key = req[p].leg_key
                  /\ last'.result \in {"ok", "StoreUnavailable"}
                  /\ last'.result = "ok" =>
                        overrides' = Append(overrides, RequestedOverride(req[p]))
                  /\ last'.result # "ok" => overrides' = overrides
       /\ OverrideAnsweredAtOnce =>
            /\ overrides' = overrides
            /\ legs' = legs /\ trade_history' = trade_history
            /\ last'.result # "ok"
            /\ last'.result # "ValidationError" =>
                  /\ last'.result \in {"NotFound", "LegNotFound", "InvalidState"}
                  /\ last'.result = "NotFound" <=> ~stateExists
                  /\ last'.result = "LegNotFound" <=>
                        (stateExists /\ last'.leg_key \notin DOMAIN legs)
                  /\ last'.result = "InvalidState" <=>
                        /\ stateExists /\ last'.leg_key \in DOMAIN legs
                        /\ legs[last'.leg_key].status # "IN_POSITION"]_vars

\* C22 witness: an sl_price Override was published for an IN_POSITION leg,
\* and the leg is as the request found it.
C22_Witness ==
    /\ last.op = "override" /\ last.result = "ok"
    /\ last.ovr.override_type = "sl_price"
    /\ Len(overrides) = 1 /\ overrides[1] = RequestedOverride(last)
    /\ stateExists /\ last.leg_key \in DOMAIN legs
    /\ legs[last.leg_key] = last.leg
    /\ last.leg.status = "IN_POSITION" /\ last.leg.sl_price # last.ovr.new_value
    /\ trade_history = <<>>

(***************************************************************************)
(* Claims checked under SpecAdd                                            *)
(***************************************************************************)
\* The status validation gives the leg of an accepted body, by its mode.
StatusByMode(data) ==
    LET v == AddValidate(data)
    IN  v.err = "None" =>
          /\ data.mode \in {"None", "TRACK", "NEW"}
          /\ data.mode \in {"None", "TRACK"} => v.leg.status = "IN_POSITION"
          /\ data.mode = "NEW" => v.leg.status = "PENDING_ENTRY"
\* This step is an AddManualLeg that put its leg into the strategy.
Added == AddStep /\ last'.result = "ok"

\* C23: an accepted body gives its leg the status IN_POSITION when its mode
\* is TRACK or is not given and PENDING_ENTRY when its mode is NEW, and no
\* other mode is accepted; the leg an AddManualLeg puts into the strategy
\* is the leg so built, with one of these two statuses, under a key that
\* was absent, and no leg already there changes.
C23_InitialStatusByMode ==
    [][/\ \A data \in AddBodies : StatusByMode(data)
       /\ Added =>
            /\ last'.leg_key \notin DOMAIN legs
            /\ DOMAIN legs' = DOMAIN legs \cup {last'.leg_key}
            /\ legs'[last'.leg_key] = last'.leg
            /\ last'.leg.status \in {"IN_POSITION", "PENDING_ENTRY"}
            /\ \E data \in AddBodies :
                  AddValidate(data) = [err |-> "None", leg |-> last'.leg]
       /\ ~Added => DOMAIN legs' = DOMAIN legs
       /\ \A k \in DOMAIN legs : legs'[k] = legs[k]]_vars

\* C23 witness: a body with no mode added L1 as IN_POSITION and a NEW body
\* added L2 as PENDING_ENTRY.
C23_Witness ==
    /\ last.op = "add" /\ last.result = "ok"
    /\ DOMAIN legs = {"L1", "L2"}
    /\ legs["L1"] = AddValidate(AddData("None", "BUY", JNum(100), JNum(10),
                                        JNum(10), JNum(10), SymNifty)).leg
    /\ legs["L1"].status = "IN_POSITION"
    /\ legs["L2"].leg_type = "MANUAL" /\ legs["L2"].status = "PENDING_ENTRY"

\* A quantity that is a positive integer.
PositiveQuantity(q) == IsNum(q) /\ q.v > 0

\* C24: every leg in the strategy, so every leg an AddManualLeg persisted,
\* has a quantity that is a positive integer.
C24_PersistedQuantityPositive ==
    stateExists => \A k \in DOMAIN legs : PositiveQuantity(legs[k].quantity)

\* The NEW body that carries both percentages and no entry_price.
NewBodyWithPercents ==
    AddData("NEW", "SELL", JNone, JNum(10), JNum(10), JNum(10), SymNifty)

\* C25: a leg in the strategy that has no entry_price has neither sl_price
\* nor target_price; a body accepted without an entry_price is a NEW body,
\* its percentages passed validation, and the leg built from it has both
\* levels absent.
C25_LevelsOnlyWithEntryPrice ==
    /\ stateExists =>
          \A k \in DOMAIN legs :
              legs[k].entry_price = JNone =>
                  (legs[k].sl_price = JNone /\ legs[k].target_price = JNone)
    /\ \A data \in AddBodies :
          LET v == AddValidate(data)
          IN  (v.err = "None" /\ data.entry_price = JNone) =>
                /\ data.mode = "NEW"
                /\ PercentOk(data.sl_percent) /\ PercentOk(data.target_percent)
                /\ v.leg.entry_price = JNone
                /\ v.leg.sl_price = JNone /\ v.leg.target_price = JNone

\* C25 witness: the NEW body with sl_percent and target_percent and no
\* entry_price was accepted, and its leg is stored without levels.
C25_Witness ==
    /\ last.op = "add" /\ last.result = "ok"
    /\ last.leg = AddValidate(NewBodyWithPercents).leg
    /\ stateExists /\ last.leg_key \in DOMAIN legs
    /\ legs[last.leg_key] = last.leg
    /\ last.leg.status = "PENDING_ENTRY" /\ last.leg.entry_price = JNone
    /\ last.leg.sl_price = JNone /\ last.leg.target_price = JNone

(***************************************************************************)
(* Claims checked under SpecInfer                                          *)
(***************************************************************************)
\* str.endswith
EndsWith(sym, suf) ==
    /\ Len(sym) >= Len(suf)
    /\ \A j \in 1..Len(suf) : sym[Len(sym) - Len(suf) + j] = suf[j]

\* An option symbol: one that ends in CE or PE.
OptionSymbol(u) == EndsWith(u, <<"C", "E">>) \/ EndsWith(u, <<"P", "E">>)

\* The exchange the rule gives a symbol.
ExpectedExchange(sym) ==
    LET u == Upper(sym)
    IN  IF ~OptionSymbol(u) THEN "NSE"
        ELSE IF Contains(u, <<"S", "E", "N", "S", "E", "X">>)
                \/ Contains(u, <<"B", "A", "N", "K", "E", "X">>)
        THEN "BFO"
        ELSE "NFO"

\* C26: every market exit order placed for a leg that has no exchange goes
\* to BFO when its symbol is an option of the SENSEX/BANKEX family, to NFO
\* when it is any other option symbol (NIFTY family or unknown), and to NSE
\* when the symbol is not an option symbol (does not end in CE or PE); for a
\* leg that has an exchange the order goes to that exchange.
C26_InferredExchange ==
    \A k \in DOMAIN legs :
        \A i \in 1..Len(orders[k]) :
            orders[k][i].exchange =
                IF TruthyStr(legs[k].exchange) THEN legs[k].exchange
                ELSE ExpectedExchange(legs[k].symbol)

(***************************************************************************)
(* Claims about the orders and the failures of a ManualExitLeg (Spec)      *)
(***************************************************************************)
\* C27: for each leg_key, at most one market exit order has been placed at
\* the broker, whatever requests were served and however they interleaved.
C27_AtMostOneExitOrder == \A k \in LegKeys : Len(orders[k]) <= 1

\* This step changes the legs, the trade_history or the published Overrides.
StoreChanges ==
    legs' # legs \/ trade_history' # trade_history \/ overrides' # overrides
\* This step is one of p's ManualExitLeg request, and the request returns
\* an error in it.
ExitFails(p) ==
    /\ req[p].op = "exit" /\ Steps(p) /\ req'[p].pc = "idle"
    /\ last'.result # "ok"

\* C28: a ManualExitLeg that returns an error, at once or after its market
\* or commit step, changes neither legs nor trade_history and publishes no
\* Override in the step in which it returns; and it has changed nothing
\* before, since a step of a ManualExitLeg that changes any of them is a
\* commit the store took, after which the request answers success.
C28_FailedExitChangesNothing ==
    [][/\ (nreq' = nreq + 1 /\ req' = req /\ last'.op = "exit") =>
            (last'.result # "ok" /\ ~StoreChanges)
       /\ \A p \in Procs :
            /\ ExitFails(p) => ~StoreChanges
            /\ ExitGoesOn(p) => ~StoreChanges
            /\ (req[p].op = "exit" /\ Steps(p) /\ StoreChanges) =>
                  /\ req[p].pc \in {"commit", "publish"}
                  /\ req'[p].pc = "publish" \/ last'.result = "ok"
            /\ (req[p].pc = "publish" /\ Steps(p)) => last'.result = "ok"
            /\ (req[p].pc = "market" /\ Steps(p)) => ~StoreChanges]_vars

\* C28 witness: a market exit failed after its order was placed; the leg
\* is as the request read it, with no trade and no Override.
C28_Witness ==
    /\ last.op = "exit" /\ last.market /\ last.result = "MarketExitFailed"
    /\ last.placed = 1
    /\ stateExists /\ last.leg_key \in DOMAIN legs
    /\ legs[last.leg_key] = last.leg /\ last.leg.status = "IN_POSITION"
    /\ trade_history = <<>> /\ overrides = <<>>

\* The request holds a fill price the engine returned.
HasFillPrice(r) == r.placed = 1 /\ IsNum(r.exit_price) /\ r.exit_price.v \in FillPrices

\* C29: a market ManualExitLeg reaches its commit, the call of the store's
\* exitLeg, only from its market step and only with a fill price the engine
\* returned with success, and that price is the exit_price it commits; it
\* reaches the publication of its MANUAL_EXIT Override only by a commit the
\* store took; a commit the store refused or failed answers the error with
\* no Override published, and no step of the request before the
\* publication adds an Override.
C29_MarketExitStepsInOrder ==
    [][\A p \in Procs :
          /\ (Steps(p) /\ req'[p].pc = "commit" /\ req'[p].market) =>
                /\ req[p].pc = "market"
                /\ HasFillPrice(req'[p])
                /\ Len(orders'[req[p].leg_key]) = Len(orders[req[p].leg_key]) + 1
          /\ (req[p].pc = "market" /\ Steps(p) /\ req'[p].pc # "commit") =>
                /\ req'[p].pc = "idle" /\ last'.result # "ok"
                /\ ~StoreChanges
          /\ (req[p].pc = "commit" /\ Steps(p) /\ req[p].market) =>
                /\ HasFillPrice(req[p])
                /\ overrides' = overrides
                /\ Commits(p) =>
                      trade_history'[Len(trade_history')].exit_price = req[p].exit_price
                /\ ~Commits(p) =>
                      /\ req'[p].pc = "idle"
                      /\ last'.result \in {"NotFound", "StoreUnavailable"}
                      /\ legs' = legs /\ trade_history' = trade_history
          /\ (Steps(p) /\ req'[p].pc = "publish") => Commits(p)
          /\ (req[p].op = "exit" /\ Steps(p) /\ overrides' # overrides) =>
                /\ req[p].pc = "publish"
                /\ overrides' = Append(overrides, ManualExitOverride(req[p]))]_vars

\* C29 witness: a market exit went through all three steps: one order, the
\* ClosedTrade at the fill price, then the Override carrying that price.
C29_Witness ==
    /\ last.op = "exit" /\ last.market /\ last.result = "ok"
    /\ HasFillPrice(last)
    /\ Len(orders[last.leg_key]) = 1
    /\ Len(trade_history) = 1
    /\ trade_history[1].leg_key = last.leg_key
    /\ trade_history[1].exit_price = last.exit_price
    /\ Len(overrides) = 1 /\ overrides[1] = ManualExitOverride(last)

(***************************************************************************)
(* Claims about the triple execute_market_exit returns (SpecExit)          *)
(***************************************************************************)
\* The return statements of the engine, the except clause among them.
ReturnStatements ==
    {"complete", "sandbox", "placement", "no_order_id", "invalid_price",
     "rejected", "timeout", "no_ltp", "exception"}

\* A triple as the claim describes it.
WellFormedResult(success, fill_price) ==
    IF success THEN IsNum(fill_price) /\ fill_price.v > 0
    ELSE fill_price = JNone

PlacementRefused ==
    \/ ex.place.status = "raised"
    \/ ~ex.place.success
    \/ ex.place.status # "success"
    \/ ex.place.orderid = "None"

\* C31: in live mode, when place_order fails, answers a status other than
\* success, or answers without an order id, the run has ended in failure
\* with no fill price, having placed one order and polled the order status
\* not once; a run that is polling had its order accepted with an id.
C31_RefusedPlacementNeverPolls ==
    (~ex.analyzer /\ ex.placeCalls >= 1 /\ PlacementRefused) =>
      /\ ex.pc = "done" /\ Failed
      /\ ex.exit \in {"placement", "no_order_id", "exception"}
      /\ ex.placeCalls = 1
      /\ ex.polls = 0 /\ Polled = 0

\* C31 witness: with the default ceiling the broker answered success
\* without an order id, and the run failed without a poll.
C31_Witness ==
    /\ ~ex.analyzer /\ ex.pc = "done" /\ ex.max_retries = DefaultMaxRetries
    /\ ex.place.success /\ ex.place.status = "success" /\ ex.place.orderid = "None"
    /\ Failed /\ ex.exit = "no_order_id" /\ Polled = 0

\* The price lookups of a sandbox run ended without a positive price.
NoReferencePrice ==
    /\ ex.ltpCalls = 1 /\ ~LtpPositive /\ QuoteAnswered
    /\ ~(QuoteGood /\ Numeric(ex.quote.ltp) /\ NumOf(ex.quote.ltp) > 0)

SandboxAccepted == ex.place.success /\ ex.place.status \in {"success", "analyze"}

SharedMode == environ \notin {"None", ""}

\* A call that has ended without an exception inside it.
Served(p) == call[p].pc = "done" /\ call[p].error = "None"

\* What a function returns when it is handed the cached credentials.
FromCache(p) == Resolve(call[p].fn, call[p].defaults, credentials_cache)

CacheAndCallers ==
    /\ Len(loads) <= 1
    /\ credentials_cache = JNone <=> loads = <<>>
    /\ credentials_cache # JNone => loads = <<credentials_cache>>
    /\ \A p \in Threads :
          /\ Served(p) =>
                /\ credentials_cache # JNone
                /\ call[p].outcome = "returned"
                /\ call[p].result = FromCache(p)
          /\ (call[p].hot /\ call[p].pc = "done") => (Served(p) /\ ~call[p].tried)
          /\ call[p].hot => call[p].pc \in {"getenv", "check", "fast_return", "done"}

CacheKept ==
    credentials_cache # JNone => credentials_cache' = credentials_cache

\* C33: with SHARED_CREDENTIALS_FILE set, whatever the interleaving of the
\* callers and however the file changes meanwhile, at most one load of the
\* file is stored into the cache; a filled cache is never assigned again
\* or cleared; every call that ends without an error has returned the
\* cached credentials, and a call begun with the cache filled ends so
\* without taking the lock or reading the file.
C33_CredentialsLoadedOnce ==
    /\ [](SharedMode => CacheAndCallers)
    /\ [][SharedMode => CacheKept]_vars

\* C33 witness: two calls began with the cache empty; thread 1 loaded the
\* file, thread 2 did not, the file has been rewritten since, and both
\* returned the credentials thread 1 cached.
C33_Witness ==
    /\ SharedMode /\ Served(1) /\ Served(2)
    /\ ~call[1].hot /\ ~call[2].hot /\ call[1].tried /\ ~call[2].tried
    /\ call[1].fn = "get_shared_credentials" /\ call[2].fn = "get_shared_credentials"
    /\ credFile = CredFile("kB", "tB", "None")
    /\ call[1].result = <<"kA", "tA">> /\ call[2].result = <<"kA", "tA">>

\* The two functions that take local defaults.
WithDefaults(p) == call[p].fn \in {"get_shared_credentials", "get_shared_auth_token"}

\* A call ended with the error of a failed load.
LoadFailed(p) == call[p].pc = "done" /\ call[p].error # "None"

FailuresAndDefaults ==
    /\ SharedMode =>
          \A p \in Threads :
            /\ (LoadFailed(p) /\ WithDefaults(p)) =>
                  /\ call[p].outcome = "raised"
                  /\ call[p].result = <<>>
                  /\ call[p].tried
            /\ (call[p].pc = "done" /\ ~call[p].tried) => Served(p)
            /\ (call[p].pc = "done" /\ WithDefaults(p) /\ call[p].outcome = "returned")
                  => /\ credentials_cache # JNone
                     /\ call[p].result = FromCache(p)
    /\ ~SharedMode =>
          /\ credentials_cache = JNone /\ loads = <<>> /\ cache_lock = 0
          /\ \A p \in Threads :
                /\ call[p].pc \in {"idle", "getenv", "done"}
                /\ ~call[p].tried
                /\ (call[p].pc = "done" /\ WithDefaults(p)) =>
                      /\ call[p].outcome = "returned"
                      /\ call[p].result = call[p].defaults

\* A step in which a call ends with an error leaves the cache empty and the
\* lock free.
FailureLeavesCacheEmpty ==
    \A p \in Threads :
      (call[p].pc # "done" /\ call'[p].pc = "done" /\ call'[p].error # "None") =>
        /\ credentials_cache = JNone /\ credentials_cache' = JNone
        /\ loads' = <<>>
        /\ cache_lock' = 0

\* C34: in shared mode a call of get_shared_credentials or
\* get_shared_auth_token whose load failed (no file, no JSON, an empty or
\* absent key) has raised and returned nothing, the failure leaves the cache
\* empty and the lock free, and no call ends without credentials unless it
\* ran the load itself; outside shared mode the two functions return the
\* defaults they were given, no call reads the file, and the cache stays
\* empty.
C34_LoadFailurePropagates ==
    /\ []FailuresAndDefaults
    /\ [][FailureLeavesCacheEmpty]_vars

\* C34 witness: thread 1's get_shared_credentials raised for a missing
\* file, which left the cache empty; thread 2's later load of the file
\* succeeded and filled it.
C34_Witness ==
    /\ SharedMode
    /\ call[1].pc = "done" /\ call[1].fn = "get_shared_credentials"
    /\ call[1].outcome = "raised" /\ call[1].error = "FileNotFoundError"
    /\ call[2].pc = "done" /\ call[2].fn = "get_shared_auth_token"
    /\ call[2].tried /\ call[2].result = <<"kA:tA">>
    /\ loads = <<LoadedCredentials(CredFile("kA", "tA", "oA"))>>

====
